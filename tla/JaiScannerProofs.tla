-------------------------- MODULE JaiScannerProofs --------------------------
(***************************************************************************)
(* Proofs about JaiScanner: for any words, any number of parse versions    *)
(* and any buffer of at most 2048 bytes the scanner writes inside the      *)
(* buffer, reads back exactly what it wrote and implements one stack of    *)
(* heredocs for each version.                                              *)
(***************************************************************************)
EXTENDS JaiScanner, SequenceTheorems, TLAPS

\* Where word k of ws begins, when the words up to Len(at) begin at at and
\* the next one would begin at end.
Offset(at, end, k) == IF k <= Len(at) THEN at[k] ELSE end

\* The words of ws up to Len(at) lie in the buffer one behind the other.
Layout(at, end, ws) ==
    /\ Len(at) <= Len(ws)
    /\ Offset(at, end, 1) = 1
    /\ \A k \in 1 .. Len(at) : Offset(at, end, k + 1) = at[k] + Bytes(ws[k])
    /\ \A k \in 1 .. Len(at) : at[k] + 5 + 4 * Chars[ws[k]] < BufferSize
    /\ \A k \in 1 .. Len(at) : at[k] < end
    /\ \A j, k \in 1 .. Len(at) : j < k => at[j] < at[k]
    /\ end >= 8 * Len(at) + 1
    /\ end < BufferSize

\* A stored state: one that did not fit, or all words and their count.
Complete(b) ==
    /\ Len(b.at) = Len(b.words)
    /\ b.count = Len(b.words)
    /\ Layout(b.at, b.length, b.words)

Intact(b) == b = Lost \/ Complete(b)

\* What the loop of deserialize has restored so far.
Restoring ==
    phase = "read" =>
        /\ Complete(saved[turn])
        /\ Len(stack) <= Len(saved[turn].words)
        /\ stack = SubSeq(saved[turn].words, 1, Len(stack))
        /\ size = Offset(saved[turn].at, saved[turn].length, Len(stack) + 1)

\* What the loop of serialize writes: the heredocs of the version and one
\* more, or all but the last, which lie where they were read from.
Storing ==
    phase = "write" =>
        /\ Layout(offsets, size, stack)
        /\ \/ \E w \in Words : /\ match = <<"HEREDOC_START", w>>
                               /\ stack = Append(saved[turn].words, w)
           \/ /\ saved[turn].words # <<>>
              /\ match = <<"HEREDOC_END", Top(saved[turn].words)>>
              /\ stack = Pop(saved[turn].words)
              /\ \A k \in 1 .. Len(offsets) + 1 :
                    Offset(offsets, size, k) = Offset(saved[turn].at, saved[turn].length, k)

Scanning == phase = "scan" => stack = saved[turn].words

Invariant ==
    /\ TypeOK
    /\ \A v \in Versions : Intact(saved[v])
    /\ Restoring
    /\ Scanning
    /\ Storing

-----------------------------------------------------------------------------
\* The empty buffer is a stored state.
LEMMA LostIsBuffer == Lost \in Buffers
BY DEF Lost, Buffers

\* A layout leaves room for its words' lengths, so 2048 bytes hold at most 255.
LEMMA LayoutCounts ==
    ASSUME NEW at \in Seq(Nat), NEW end \in Nat, NEW ws \in Seq(Words), Layout(at, end, ws)
    PROVE  Len(at) <= 255
BY BufferAssumption DEF Layout

\* Writing one more word extends the layout.
LEMMA LayoutExtends ==
    ASSUME NEW at \in Seq(Nat), NEW end \in Nat, NEW ws \in Seq(Words), Layout(at, end, ws),
           Len(at) < Len(ws), end + 5 + 4 * Chars[ws[Len(at) + 1]] < BufferSize
    PROVE  Layout(Append(at, end), end + Bytes(ws[Len(at) + 1]), ws)
<1>. DEFINE w   == ws[Len(at) + 1]
            at2 == Append(at, end)
            new == end + Bytes(w)
<1>1. w \in Words /\ Chars[w] \in Nat \ {0}
  BY CharsAssumption
<1>2. /\ at2 \in Seq(Nat)
      /\ Len(at2) = Len(at) + 1
      /\ at2[Len(at) + 1] = end
      /\ \A k \in 1 .. Len(at) : at2[k] = at[k]
  OBVIOUS
<1>3. \A k \in 1 .. Len(at) : at[k] \in Nat /\ ws[k] \in Words /\ Chars[ws[k]] \in Nat
  <2>. SUFFICES ASSUME NEW k \in 1 .. Len(at)
                PROVE  at[k] \in Nat /\ ws[k] \in Words /\ Chars[ws[k]] \in Nat
    OBVIOUS
  <2>1. at[k] \in Nat
    OBVIOUS
  <2>2. k \in 1 .. Len(ws)
    BY DEF Layout
  <2>3. ws[k] \in Words
    BY <2>2
  <2>. QED BY <2>1, <2>3, CharsAssumption
<1>4. Offset(at2, new, 1) = 1
  BY <1>2 DEF Layout, Offset
<1>5. \A k \in 1 .. Len(at) : Offset(at2, new, k + 1) = Offset(at, end, k + 1)
  BY <1>2 DEF Offset
<1>6. Offset(at2, new, Len(at) + 2) = new
  BY <1>2 DEF Offset
<1>7. \A k \in 1 .. Len(at2) : Offset(at2, new, k + 1) = at2[k] + Bytes(ws[k])
  BY <1>2, <1>5, <1>6 DEF Layout
<1>8. \A k \in 1 .. Len(at2) : at2[k] + 5 + 4 * Chars[ws[k]] < BufferSize
  BY <1>2 DEF Layout
<1>9. new \in Nat /\ new > end /\ new < BufferSize /\ new >= end + 8
  <2>1. BufferSize \in Nat /\ end + 5 + 4 * Chars[w] < BufferSize
    BY BufferAssumption
  <2>2. Bytes(w) = 4 + 4 * Chars[w]
    BY DEF Bytes
  <2>3. ASSUME NEW c \in Nat \ {0}, end + 5 + 4 * c < BufferSize
        PROVE  LET m == end + (4 + 4 * c) IN m \in Nat /\ m > end /\ m < BufferSize /\ m >= end + 8
    BY <2>1, <2>3
  <2>. QED BY <1>1, <2>1, <2>2, <2>3
<1>10. \A k \in 1 .. Len(at2) : at2[k] < new
  BY <1>2, <1>3, <1>9, SMTT(30) DEF Layout
<1>12. \A j, k \in 1 .. Len(at2) : j < k => at2[j] < at2[k]
  <2>. SUFFICES ASSUME NEW j \in 1 .. Len(at2), NEW k \in 1 .. Len(at2), j < k
                PROVE  at2[j] < at2[k]
    OBVIOUS
  <2>1. j \in 1 .. Len(at) /\ at2[j] = at[j]
    BY <1>2
  <2>2. CASE k = Len(at) + 1
    BY <1>2, <2>1, <2>2 DEF Layout
  <2>3. CASE k # Len(at) + 1
    <3>1. k \in 1 .. Len(at) /\ at2[k] = at[k]
      BY <1>2, <2>3
    <3>. QED BY <2>1, <3>1 DEF Layout
  <2>. QED BY <2>2, <2>3
<1>13. Len(at2) <= Len(ws)
  BY <1>2
<1>11. new >= 8 * Len(at2) + 1
  BY <1>2, <1>9 DEF Layout
<1>. QED BY <1>4, <1>7, <1>8, <1>9, <1>10, <1>11, <1>12, <1>13 DEF Layout

\* The empty layout, when serialize has written the count.
LEMMA LayoutStarts == ASSUME NEW ws \in Seq(Words) PROVE Layout(<<>>, 1, ws)
BY BufferAssumption DEF Layout, Offset

-----------------------------------------------------------------------------
(***************************************************************************)
(* Each action keeps the invariant.                                        *)
(***************************************************************************)
LEMMA StepDeserialize ==
    ASSUME Invariant, NEW v \in Versions, Deserialize(v) PROVE Invariant'
<1>1. TypeOK'
  BY DEF Invariant, TypeOK, Deserialize, Cleared
<1>2. saved[v].length = 0 => saved[v].words = <<>>
  <2>1. Complete(saved[v]) => saved[v].length >= 1
    BY DEF Invariant, TypeOK, Buffers, Complete, Layout
  <2>. QED BY <2>1 DEF Invariant, Intact, Lost
<1>3. saved[v].length # 0 => Complete(saved[v])
  BY DEF Invariant, Intact, Lost
<1>4. Restoring'
  <2>. SUFFICES ASSUME saved[v].length # 0 PROVE Restoring'
    BY DEF Restoring, Deserialize
  <2>1. Complete(saved[v]) /\ saved[v] \in Buffers
    BY <1>3 DEF Invariant, TypeOK
  <2>2. Offset(saved[v].at, saved[v].length, 1) = 1 /\ saved[v].words \in Seq(Words)
    BY <2>1 DEF Complete, Layout, Buffers
  <2>3. SubSeq(saved[v].words, 1, 0) = <<>>
    BY <2>2
  <2>. QED BY <2>1, <2>2, <2>3 DEF Restoring, Deserialize, Cleared
<1>5. Scanning' /\ Storing'
  BY <1>2 DEF Scanning, Storing, Deserialize, Cleared
<1>. QED BY <1>1, <1>4, <1>5 DEF Invariant, Deserialize

\* The word at the current offset is the next one.
LEMMA StepReadWord ==
    ASSUME Invariant, NEW k \in 1 .. Len(saved[turn].at), ReadWord(k) PROVE Invariant'
<1>. DEFINE b == saved[turn]
            n == Len(stack)
<1>1. /\ b \in Buffers /\ Complete(b) /\ stack \in Seq(Words)
      /\ n < Len(b.words)
      /\ stack = SubSeq(b.words, 1, n)
      /\ size = Offset(b.at, b.length, n + 1)
  BY DEF Invariant, TypeOK, Restoring, ReadWord, Complete
<1>2. /\ b.words \in Seq(Words) /\ b.at \in Seq(Nat) /\ Len(b.at) = Len(b.words)
      /\ n \in Nat /\ n + 1 \in 1 .. Len(b.at)
  BY <1>1 DEF Buffers, Complete
<1>3. k = n + 1
  <2>1. b.at[k] = b.at[n + 1]
    BY <1>1, <1>2 DEF ReadWord, Offset
  <2>2. \A i, j \in 1 .. Len(b.at) : i < j => b.at[i] < b.at[j]
    BY <1>1 DEF Complete, Layout
  <2>3. ASSUME NEW i \in 1 .. Len(b.at) PROVE b.at[i] \in Nat
    BY <1>2, ElementOfSeq
  <2>. QED BY <1>2, <2>1, <2>2, <2>3, SMTT(30)
<1>4. b.words[k] \in Words
  BY <1>2, <1>3
<1>5. stack' = Append(stack, b.words[n + 1]) /\ stack' \in Seq(Words) /\ Len(stack') = n + 1
  BY <1>1, <1>2, <1>3, <1>4 DEF ReadWord, Push
<1>6. Append(SubSeq(b.words, 1, n), b.words[n + 1]) = SubSeq(b.words, 1, n + 1)
  <2>1. Len(SubSeq(b.words, 1, n)) = n /\ Len(SubSeq(b.words, 1, n + 1)) = n + 1
    BY <1>2
  <2>. QED BY <1>2, <2>1
<1>7. size' = Offset(b.at, b.length, n + 2)
  <2>1. Offset(b.at, b.length, k + 1) = b.at[k] + Bytes(b.words[k])
    BY <1>1 DEF Complete, Layout
  <2>2. size' = b.at[k] + Bytes(b.words[k])
    BY DEF ReadWord
  <2>. QED BY <1>2, <1>3, <2>1, <2>2
<1>8. TypeOK'
  <2>1. size' \in Nat
    BY <1>4, CharsAssumption, SMTT(30) DEF Invariant, TypeOK, ReadWord, Bytes
  <2>. QED BY <1>5, <2>1 DEF Invariant, TypeOK, ReadWord
<1>9. Restoring'
  BY <1>1, <1>2, <1>5, <1>6, <1>7 DEF Restoring, ReadWord
<1>. QED BY <1>8, <1>9 DEF Invariant, Scanning, Storing, ReadWord

\* When the loop of deserialize ends, every word is back.
LEMMA StepEndRead == ASSUME Invariant, EndRead PROVE Invariant'
<1>1. Scanning'
  <2>1. saved[turn].words \in Seq(Words)
    BY DEF Invariant, TypeOK, Buffers
  <2>2. stack = SubSeq(saved[turn].words, 1, Len(saved[turn].words))
    BY DEF Invariant, Restoring, Complete, EndRead
  <2>. QED BY <2>1, <2>2 DEF Scanning, EndRead
<1>. QED BY <1>1 DEF Invariant, TypeOK, Restoring, Storing, EndRead

\* A scan that fails stores nothing.
LEMMA StepRefuse == ASSUME Invariant, Refuse PROVE Invariant'
BY DEF Invariant, TypeOK, Restoring, Scanning, Storing, Refuse

\* Serialize starts on the words of the version and one more.
LEMMA StepScanStart ==
    ASSUME Invariant, NEW w \in Words \cup {None}, ScanStart(w) PROVE Invariant'
<1>1. w \in Words /\ stack = saved[turn].words
  BY DEF Invariant, Scanning, ScanStart, Starts
<1>2. stack' = Append(saved[turn].words, w) /\ stack' \in Seq(Words)
  BY <1>1 DEF Invariant, TypeOK, ScanStart, Push
<1>3. TypeOK'
  BY <1>1, <1>2 DEF Invariant, TypeOK, ScanStart, Matched, Symbols
<1>4. Storing'
  BY <1>1, <1>2, LayoutStarts DEF Storing, ScanStart, Matched
<1>. QED BY <1>3, <1>4 DEF Invariant, Restoring, Scanning, ScanStart, Matched

\* Serialize starts on all words of the version but the last.
LEMMA StepScanEnd ==
    ASSUME Invariant, NEW w \in Words \cup {None}, ScanEnd(w) PROVE Invariant'
<1>. DEFINE b == saved[turn]
<1>1. stack = b.words /\ b.words \in Seq(Words) /\ b.words # <<>> /\ w = Top(b.words)
  BY DEF Invariant, TypeOK, Buffers, Scanning, ScanEnd, Closes
<1>2. Len(b.words) \in Nat \ {0} /\ w \in Words
  BY <1>1 DEF Top
<1>3. stack' = Pop(b.words) /\ stack' \in Seq(Words)
  BY <1>1, <1>2 DEF ScanEnd, Pop
<1>4. TypeOK'
  BY <1>2, <1>3 DEF Invariant, TypeOK, ScanEnd, Matched, Symbols
<1>5. Complete(b)
  BY <1>1 DEF Invariant, TypeOK, Intact, Lost
<1>6. Offset(<<>>, 1, 1) = Offset(b.at, b.length, 1)
  BY <1>5 DEF Complete, Layout, Offset
<1>7. Layout(<<>>, 1, stack')
  BY <1>3, LayoutStarts
<1>8. Storing'
  <2>1. /\ phase' = "write" /\ offsets' = <<>> /\ size' = 1 /\ saved' = saved /\ turn' = turn
        /\ match' = <<"HEREDOC_END", Top(b.words)>>
    BY <1>1 DEF ScanEnd, Matched
  <2>2. \A k \in 1 .. Len(offsets') + 1 : k = 1
    BY <2>1
  <2>. QED BY <1>1, <1>3, <1>6, <1>7, <2>1, <2>2 DEF Storing
<1>. QED BY <1>4, <1>8 DEF Invariant, Restoring, Scanning, ScanEnd, Matched

\* In the HEREDOC_END case the words still lie where they were read from.
LEMMA StepWriteWord == ASSUME Invariant, WriteWord PROVE Invariant'
<1>. DEFINE b == saved[turn]
            n == Len(offsets)
            w == stack[n + 1]
<1>1. /\ stack \in Seq(Words) /\ offsets \in Seq(Nat) /\ size \in Nat /\ b \in Buffers
      /\ n \in Nat /\ n < Len(stack)
      /\ Layout(offsets, size, stack)
  BY DEF Invariant, TypeOK, Storing, WriteWord
<1>2. /\ size' = size + Bytes(w) /\ offsets' = Append(offsets, size)
      /\ size + 5 + 4 * Chars[w] < BufferSize
      /\ stack' = stack /\ phase' = phase /\ saved' = saved /\ turn' = turn /\ match' = match
      /\ token' = token /\ phase = "write"
  BY DEF WriteWord, Fits
<1>3. w \in Words /\ Chars[w] \in Nat
  BY <1>1, CharsAssumption
<1>4. TypeOK'
  <2>1. size' \in Nat /\ offsets' \in Seq(Nat)
    BY <1>1, <1>2, <1>3, SMTT(30) DEF Bytes
  <2>. QED BY <1>2, <2>1 DEF Invariant, TypeOK
<1>5. Layout(offsets', size', stack')
  BY <1>1, <1>2, LayoutExtends
<1>6. ASSUME b.words # <<>>, stack = Pop(b.words),
             \A k \in 1 .. n + 1 : Offset(offsets, size, k) = Offset(b.at, b.length, k)
      PROVE  \A k \in 1 .. Len(offsets') + 1 : Offset(offsets', size', k) = Offset(b.at, b.length, k)
  <2>1. /\ Complete(b) /\ b.words \in Seq(Words) /\ b.at \in Seq(Nat)
        /\ Len(b.at) = Len(b.words) /\ Len(b.words) \in Nat \ {0}
    <3>1. Complete(b) /\ b.words \in Seq(Words) /\ b.at \in Seq(Nat)
      BY <1>6 DEF Invariant, TypeOK, Buffers, Intact, Lost
    <3>. QED BY <1>6, <3>1 DEF Complete
  <2>2. Len(stack) = Len(b.words) - 1 /\ \A k \in 1 .. Len(stack) : stack[k] = b.words[k]
    BY <1>6, <2>1 DEF Pop
  <2>3. n + 1 \in 1 .. Len(b.at) /\ w = b.words[n + 1]
    BY <1>1, <2>1, <2>2
  <2>4. Offset(b.at, b.length, n + 2) = b.at[n + 1] + Bytes(w)
    <3>1. Offset(b.at, b.length, (n + 1) + 1) = b.at[n + 1] + Bytes(b.words[n + 1])
      BY <2>1, <2>3 DEF Complete, Layout
    <3>. QED BY <1>1, <2>3, <3>1
  <2>5. size = b.at[n + 1]
    BY <1>1, <1>6, <2>3 DEF Offset
  <2>6. Len(offsets') = n + 1 /\ offsets'[n + 1] = size /\ \A k \in 1 .. n : offsets'[k] = offsets[k]
    BY <1>1, <1>2
  <2>7. Offset(offsets', size', n + 2) = size'
    BY <1>1, <2>6 DEF Offset
  <2>8. ASSUME NEW k \in 1 .. n + 1 PROVE Offset(offsets', size', k) = Offset(b.at, b.length, k)
    BY <1>1, <1>6, <2>6 DEF Offset
  <2>9. Offset(offsets', size', n + 2) = Offset(b.at, b.length, n + 2)
    BY <1>2, <2>4, <2>5, <2>7
  <2>10. \A k \in 1 .. n + 2 : k \in 1 .. n + 1 \/ k = n + 2
    BY <1>1
  <2>11. Len(offsets') + 1 = n + 2
    BY <1>1, <2>6
  <2>. QED BY <2>8, <2>9, <2>10, <2>11
<1>7. Storing'
  BY <1>2, <1>5, <1>6 DEF Invariant, Storing
<1>. QED BY <1>2, <1>4, <1>7 DEF Invariant, Restoring, Scanning

\* Storing a buffer that is intact ends the turn.
LEMMA StepStored ==
    ASSUME Invariant, NEW b \in Buffers, Intact(b), Stored(b), phase = "write" PROVE Invariant'
<1>1. match \in Symbols \X Words
  <2>1. saved[turn].words \in Seq(Words)
    BY DEF Invariant, TypeOK, Buffers
  <2>2. saved[turn].words # <<>> => Top(saved[turn].words) \in Words
    BY <2>1 DEF Top
  <2>. QED BY <2>2 DEF Invariant, Storing, Symbols
<1>2. <<match[1], turn, match[2]>> \in Symbols \X Versions \X Words
  BY <1>1 DEF Invariant, TypeOK
<1>3. TypeOK'
  BY <1>2 DEF Invariant, TypeOK, Stored
<1>4. \A v \in Versions : Intact(saved'[v])
  BY DEF Invariant, TypeOK, Stored
<1>. QED BY <1>3, <1>4 DEF Invariant, Restoring, Scanning, Storing, Stored

\* The buffer that EndWrite stores.
Written == [length |-> size, count |-> CountByte(Len(stack)), words |-> stack, at |-> offsets]

\* What EndWrite stores holds all words, laid out and counted.
LEMMA WrittenIsComplete ==
    ASSUME Invariant, EndWrite PROVE Written \in Buffers /\ Complete(Written)
<1>1. /\ stack \in Seq(Words) /\ offsets \in Seq(Nat) /\ size \in Nat
      /\ Len(offsets) = Len(stack) /\ Layout(offsets, size, stack)
  BY DEF Invariant, TypeOK, Storing, EndWrite
<1>2. Len(stack) \in 0 .. 255
  <2>1. Len(offsets) <= 255
    BY <1>1, LayoutCounts
  <2>2. Len(stack) \in Nat /\ Len(offsets) = Len(stack)
    BY <1>1
  <2>3. \A m \in Nat : m <= 255 => m \in 0 .. 255
    OBVIOUS
  <2>. QED BY <2>1, <2>2, <2>3
<1>3. CountByte(Len(stack)) = Len(stack)
  <2>1. \A n \in 0 .. 255 : n % 256 = n
    OBVIOUS
  <2>. QED BY <1>2, <2>1 DEF CountByte
<1>. QED BY <1>1, <1>2, <1>3 DEF Written, Buffers, Complete

\* EndWrite stores an intact buffer.
LEMMA StepEndWrite == ASSUME Invariant, EndWrite PROVE Invariant'
<1>1. Written \in Buffers /\ Intact(Written)
  BY WrittenIsComplete DEF Intact
<1>2. Stored(Written) /\ phase = "write"
  BY DEF EndWrite, Written
<1>. QED BY <1>1, <1>2, StepStored

\* GiveUpWrite stores the empty buffer, which is intact.
LEMMA StepGiveUpWrite == ASSUME Invariant, GiveUpWrite PROVE Invariant'
<1>1. Lost \in Buffers /\ Intact(Lost)
  BY LostIsBuffer DEF Intact
<1>2. Stored(Lost) /\ phase = "write"
  BY DEF GiveUpWrite
<1>. QED BY <1>1, <1>2, StepStored

\* A copy of an intact buffer is intact.
LEMMA StepFork ==
    ASSUME Invariant, NEW v \in Versions, NEW u \in Versions, Fork(v, u) PROVE Invariant'
<1>1. TypeOK' /\ \A x \in Versions : Intact(saved'[x])
  BY DEF Invariant, TypeOK, Fork
<1>. QED BY <1>1 DEF Invariant, Restoring, Scanning, Storing, Fork

\* A new scanner has nothing open and nothing stored.
LEMMA StepRecreate == ASSUME Invariant, Recreate PROVE Invariant'
<1>1. TypeOK' /\ \A v \in Versions : Intact(saved'[v])
  BY LostIsBuffer DEF Invariant, TypeOK, Recreate, Intact
<1>. QED BY <1>1 DEF Invariant, Restoring, Scanning, Storing, Recreate

\* The invariant holds initially.
LEMMA InitInvariant == ASSUME Init PROVE Invariant
<1>1. TypeOK /\ \A v \in Versions : Intact(saved[v])
  BY LostIsBuffer DEF Init, TypeOK, Intact
<1>. QED BY <1>1 DEF Init, Invariant, Restoring, Scanning, Storing

\* Every step keeps the invariant.
LEMMA StepInvariant == ASSUME Invariant, [Next]_vars PROVE Invariant'
<1>1. CASE \E v \in Versions : Deserialize(v)
  BY <1>1, StepDeserialize
<1>2. CASE \E k \in 1 .. Len(saved[turn].at) : ReadWord(k)
  BY <1>2, StepReadWord
<1>3. CASE EndRead
  BY <1>3, StepEndRead
<1>4. CASE Refuse
  BY <1>4, StepRefuse
<1>5. CASE \E w \in Words \cup {None} : ScanEnd(w) \/ ScanStart(w)
  BY <1>5, StepScanEnd, StepScanStart
<1>6. CASE WriteWord
  BY <1>6, StepWriteWord
<1>7. CASE GiveUpWrite
  BY <1>7, StepGiveUpWrite
<1>8. CASE EndWrite
  BY <1>8, StepEndWrite
<1>9. CASE \E v, u \in Versions : Fork(v, u)
  BY <1>9, StepFork
<1>10. CASE Recreate
  BY <1>10, StepRecreate
<1>11. CASE UNCHANGED vars
  BY <1>11 DEF vars, Invariant, TypeOK, Restoring, Scanning, Storing
<1>. QED BY <1>1, <1>2, <1>3, <1>4, <1>5, <1>6, <1>7, <1>8, <1>9, <1>10, <1>11 DEF Next

\* The invariant that the theorems below share.
LEMMA AlwaysInvariant == Spec => []Invariant
BY InitInvariant, StepInvariant, PTL DEF Spec

-----------------------------------------------------------------------------
(***************************************************************************)
(* The theorems.                                                           *)
(***************************************************************************)
\* Stored states, offsets, counts and matches keep their types.
THEOREM TypeCorrect == Spec => []TypeOK
<1>1. Invariant => TypeOK
  BY DEF Invariant
<1>. QED BY <1>1, AlwaysInvariant, PTL

\* Neither loop runs past the buffer the parser gave the scanner.
THEOREM BufferIsNeverOverrun == Spec => []StaysInBuffer
<1>. DEFINE Small == phase \in {"idle", "scan"} => size <= BufferSize
<1>0. 0 <= BufferSize
  BY BufferAssumption
<1>1. ASSUME Invariant, phase \in {"read", "write"} PROVE size <= BufferSize
  <2>1. CASE phase = "write"
    BY <1>1, <2>1, BufferAssumption DEF Invariant, TypeOK, Storing, Layout
  <2>2. CASE phase = "read"
    <3>. DEFINE b == saved[turn]
                n == Len(stack)
    <3>1. b \in Buffers /\ Complete(b) /\ n <= Len(b.words) /\ n \in Nat
          /\ size = Offset(b.at, b.length, n + 1)
      BY <1>1, <2>2 DEF Invariant, TypeOK, Restoring
    <3>2. b.at \in Seq(Nat) /\ b.length \in Nat /\ Len(b.at) \in Nat
      BY <3>1 DEF Buffers
    <3>3. b.length < BufferSize /\ \A k \in 1 .. Len(b.at) : b.at[k] < b.length
      BY <3>1 DEF Complete, Layout
    <3>4. CASE n + 1 <= Len(b.at)
      <4>1. n + 1 \in 1 .. Len(b.at) /\ size = b.at[n + 1]
        BY <3>1, <3>2, <3>4 DEF Offset
      <4>. QED BY <3>2, <3>3, <4>1, BufferAssumption, SMTT(30)
    <3>5. CASE ~(n + 1 <= Len(b.at))
      BY <3>1, <3>2, <3>3, <3>5, BufferAssumption DEF Offset
    <3>. QED BY <3>4, <3>5
  <2>. QED BY <1>1, <2>1, <2>2
<1>2. Init => Small
  BY BufferAssumption DEF Init
<1>3. ASSUME Invariant, Small, [Next]_vars PROVE Small'
  <2>1. CASE UNCHANGED vars
    BY <1>3, <2>1 DEF vars
  <2>2. ASSUME NEW v \in Versions, Deserialize(v) PROVE Small'
    BY <2>2, BufferAssumption DEF Deserialize
  <2>3. CASE EndRead
    BY <1>1, <1>3, <2>3 DEF EndRead
  <2>4. CASE Refuse \/ GiveUpWrite \/ EndWrite
    <3>1. size' = 0
      BY <2>4 DEF Refuse, GiveUpWrite, EndWrite, Stored
    <3>. QED BY <1>0, <3>1
  <2>5. CASE \E k \in 1 .. Len(saved[turn].at) : ReadWord(k)
    BY <2>5 DEF ReadWord
  <2>6. CASE WriteWord
    BY <2>6 DEF WriteWord
  <2>7. CASE \E w \in Words \cup {None} : ScanEnd(w) \/ ScanStart(w)
    BY <2>7 DEF ScanEnd, ScanStart, Matched
  <2>8. CASE \E v, u \in Versions : Fork(v, u)
    BY <1>3, <2>8 DEF Fork
  <2>9. CASE Recreate
    BY <1>3, <2>9 DEF Recreate
  <2>. QED BY <1>3, <2>1, <2>2, <2>3, <2>4, <2>5, <2>6, <2>7, <2>8, <2>9 DEF Next
<1>4. Invariant /\ Small => StaysInBuffer
  BY <1>1 DEF Invariant, TypeOK, StaysInBuffer
<1>. QED BY <1>2, <1>3, <1>4, AlwaysInvariant, PTL DEF Spec

\* The assertion of deserialize never fails.
THEOREM AssertionHolds == Spec => []ReadsAllThatWasWritten
<1>1. Invariant => ReadsAllThatWasWritten
  <2>. SUFFICES ASSUME Invariant, phase = "read", Len(stack) = saved[turn].count
                PROVE  size = saved[turn].length
    BY DEF ReadsAllThatWasWritten
  <2>1. Complete(saved[turn]) /\ saved[turn] \in Buffers
    BY DEF Invariant, TypeOK, Restoring
  <2>2. Len(saved[turn].at) \in Nat /\ Len(stack) = Len(saved[turn].at)
    BY <2>1 DEF Buffers, Complete
  <2>3. size = Offset(saved[turn].at, saved[turn].length, Len(stack) + 1)
    BY DEF Invariant, Restoring
  <2>. QED BY <2>2, <2>3 DEF Offset
<1>. QED BY <1>1, AlwaysInvariant, PTL

\* The byte that holds the count of open heredocs never wraps.
THEOREM CountNeverWraps == Spec => []CountIsExact
<1>1. Invariant => CountIsExact
  <2>. SUFFICES ASSUME Invariant, NEW v \in Versions
                PROVE  saved[v].count = Len(saved[v].words)
    BY DEF CountIsExact, Heredocs
  <2>1. CASE saved[v] = Lost
    BY <2>1 DEF Lost
  <2>2. CASE Complete(saved[v])
    BY <2>2 DEF Complete
  <2>. QED BY <2>1, <2>2 DEF Invariant, Intact
<1>. QED BY <1>1, AlwaysInvariant, PTL

\* Versions of the parse that share the scanner do not see each other's words.
THEOREM VersionsAreIsolated == Spec => []ScansItsOwnVersion
<1>1. Invariant => ScansItsOwnVersion
  BY DEF Invariant, Scanning, ScansItsOwnVersion, Heredocs
<1>. QED BY <1>1, AlwaysInvariant, PTL


-----------------------------------------------------------------------------
(***************************************************************************)
(* The refinement: storing a buffer is the step of HeredocStacks; reading, *)
(* scanning and writing stutter.                                           *)
(***************************************************************************)
\* The stacks that the stored buffers stand for.
Open == [v \in Versions |-> Heredocs(saved[v])]

\* A stored buffer changes the stack of the version that was lexed.
LEMMA StoredOpens ==
    ASSUME Invariant, NEW b \in Buffers, Stored(b)
    PROVE  Open' = [Open EXCEPT ![turn] = b.words]
<1>1. saved' = [saved EXCEPT ![turn] = b] /\ turn \in Versions /\ DOMAIN saved = Versions
  BY DEF Stored, Invariant, TypeOK
<1>2. \A v \in Versions : saved'[v] = IF v = turn THEN b ELSE saved[v]
  BY <1>1
<1>. QED BY <1>1, <1>2 DEF Open, Heredocs

\* After HEREDOC_START every word is stored, and opens one more heredoc.
LEMMA EndWriteRefines == ASSUME Invariant, EndWrite PROVE Stacks!Next
<1>. DEFINE ws == saved[turn].words
<1>1. Written \in Buffers /\ Written.words = stack /\ Stored(Written)
  BY WrittenIsComplete DEF EndWrite, Written
<1>2. Open' = [Open EXCEPT ![turn] = stack]
  BY <1>1, StoredOpens
<1>3. turn \in Versions /\ Open[turn] = ws /\ ws \in Seq(Words)
  BY DEF Open, Heredocs, Invariant, TypeOK, Buffers
<1>4. ASSUME NEW w \in Words, match = <<"HEREDOC_START", w>>, stack = Append(ws, w)
      PROVE  Stacks!Open(turn, w)
  <2>1. token' = <<"HEREDOC_START", turn, w>>
    BY <1>1, <1>4 DEF Stored
  <2>2. Open' = [Open EXCEPT ![turn] = Append(Open[turn], w)]
    BY <1>2, <1>3, <1>4
  <2>. QED BY <2>1, <2>2 DEF Stacks!Open, Open
<1>5. ASSUME ws # <<>>, match = <<"HEREDOC_END", Top(ws)>>, stack = Pop(ws)
      PROVE  Top(ws) \in Words /\ Stacks!Close(turn, Top(ws))
  <2>1. token' = <<"HEREDOC_END", turn, Top(ws)>>
    BY <1>1, <1>5 DEF Stored
  <2>2. Open' = [Open EXCEPT ![turn] = SubSeq(Open[turn], 1, Len(Open[turn]) - 1)]
    BY <1>2, <1>3, <1>5 DEF Pop
  <2>3. Open[turn] # <<>> /\ Top(ws) = Open[turn][Len(Open[turn])]
    BY <1>3, <1>5 DEF Top
  <2>4. Top(ws) \in Words
    BY <1>3, <1>5 DEF Top
  <2>. QED BY <2>1, <2>2, <2>3, <2>4 DEF Stacks!Close, Open
<1>6. \/ \E w \in Words : match = <<"HEREDOC_START", w>> /\ stack = Append(ws, w)
      \/ ws # <<>> /\ match = <<"HEREDOC_END", Top(ws)>> /\ stack = Pop(ws)
  BY DEF Invariant, Storing, EndWrite
<1>. QED BY <1>3, <1>4, <1>5, <1>6 DEF Stacks!Next

\* Serialize only gives up after HEREDOC_START: what was read fits again.
LEMMA GiveUpRefines == ASSUME Invariant, GiveUpWrite PROVE Stacks!Next
<1>. DEFINE b == saved[turn]
            n == Len(offsets)
<1>1. /\ stack \in Seq(Words) /\ offsets \in Seq(Nat) /\ b \in Buffers /\ turn \in Versions
      /\ phase = "write" /\ n < Len(stack) /\ n \in Nat
      /\ ~(size + 5 + 4 * Chars[stack[n + 1]] < BufferSize)
  BY DEF Invariant, TypeOK, GiveUpWrite, Fits
<1>2. ~(/\ b.words # <<>> /\ stack = Pop(b.words)
        /\ \A k \in 1 .. n + 1 : Offset(offsets, size, k) = Offset(b.at, b.length, k))
  <2>. SUFFICES ASSUME b.words # <<>>, stack = Pop(b.words),
                       \A k \in 1 .. n + 1 : Offset(offsets, size, k) = Offset(b.at, b.length, k)
                PROVE  FALSE
    OBVIOUS
  <2>1. Complete(b) /\ b.words \in Seq(Words) /\ b.at \in Seq(Nat)
    BY <1>1 DEF Invariant, Buffers, Intact, Lost
  <2>2. Len(b.at) = Len(b.words) /\ Len(b.words) \in Nat \ {0}
    BY <2>1 DEF Complete
  <2>3. Len(stack) = Len(b.words) - 1 /\ \A k \in 1 .. Len(stack) : stack[k] = b.words[k]
    BY <2>1, <2>2 DEF Pop
  <2>4. n + 1 \in 1 .. Len(b.at) /\ stack[n + 1] = b.words[n + 1]
    BY <1>1, <2>2, <2>3, SMTT(30)
  <2>5. size = b.at[n + 1]
    BY <1>1, <2>4 DEF Offset
  <2>6. b.at[n + 1] + 5 + 4 * Chars[b.words[n + 1]] < BufferSize
    BY <2>1, <2>4 DEF Complete, Layout
  <2>. QED BY <1>1, <2>4, <2>5, <2>6
<1>3. PICK w \in Words : match = <<"HEREDOC_START", w>>
  BY <1>1, <1>2 DEF Invariant, Storing
<1>4. Lost \in Buffers /\ Lost.words = <<>> /\ Stored(Lost)
  BY LostIsBuffer DEF GiveUpWrite, Lost
<1>5. Open' = [Open EXCEPT ![turn] = <<>>]
  BY <1>4, StoredOpens
<1>6. token' = <<"HEREDOC_START", turn, w>>
  BY <1>3, <1>4 DEF Stored
<1>7. Stacks!Open(turn, w)
  BY <1>5, <1>6 DEF Stacks!Open, Open
<1>. QED BY <1>1, <1>7 DEF Stacks!Next

\* Copying a version copies its stack.
LEMMA ForkRefines ==
    ASSUME Invariant, NEW v \in Versions, NEW u \in Versions, Fork(v, u) PROVE Stacks!Next
<1>1. saved' = [saved EXCEPT ![u] = saved[v]] /\ DOMAIN saved = Versions
  BY DEF Fork, Invariant, TypeOK
<1>2. \A x \in Versions : saved'[x] = IF x = u THEN saved[v] ELSE saved[x]
  BY <1>1
<1>3. Open' = [Open EXCEPT ![u] = Open[v]]
  BY <1>2 DEF Open, Heredocs
<1>4. Stacks!Fork(v, u)
  BY <1>3 DEF Fork, Stacks!Fork, Open
<1>. QED BY <1>4 DEF Stacks!Next

\* Every other action leaves the stored buffers and the last token alone.
LEMMA OthersStutter ==
    ASSUME saved' = saved, token' = token PROVE UNCHANGED Stacks!vars
BY DEF Stacks!vars, Heredocs

\* The scanner, which keeps one stack for all versions and forgets it between
\* lookaheads, behaves like one stack per version.
THEOREM ScannerImplementsStacks == Spec => ImplementsStacks
<1>1. Init => Stacks!Init
  BY DEF Init, Stacks!Init, Heredocs, Lost
<1>2. ASSUME Invariant, [Next]_vars PROVE [Stacks!Next]_(Stacks!vars)
  <2>1. CASE UNCHANGED vars
    BY <2>1, OthersStutter DEF vars
  <2>2. CASE \E v \in Versions : Deserialize(v)
    BY <2>2, OthersStutter DEF Deserialize
  <2>3. CASE \E k \in 1 .. Len(saved[turn].at) : ReadWord(k)
    BY <2>3, OthersStutter DEF ReadWord
  <2>4. CASE EndRead \/ Refuse \/ WriteWord
    BY <2>4, OthersStutter DEF EndRead, Refuse, WriteWord
  <2>5. CASE \E w \in Words \cup {None} : ScanEnd(w) \/ ScanStart(w)
    BY <2>5, OthersStutter DEF ScanEnd, ScanStart, Matched
  <2>6. CASE GiveUpWrite
    BY <1>2, <2>6, GiveUpRefines
  <2>7. CASE EndWrite
    BY <1>2, <2>7, EndWriteRefines
  <2>8. CASE \E v, u \in Versions : Fork(v, u)
    BY <1>2, <2>8, ForkRefines
  <2>9. CASE Recreate
    BY <2>9 DEF Recreate, Stacks!Next, Stacks!Reset, Stacks!Init, Heredocs, Lost
  <2>. QED BY <1>2, <2>1, <2>2, <2>3, <2>4, <2>5, <2>6, <2>7, <2>8, <2>9 DEF Next
<1>. QED BY <1>1, <1>2, AlwaysInvariant, PTL DEF Spec, ImplementsStacks, Stacks!Spec

=============================================================================
