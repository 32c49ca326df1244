----------------------------- MODULE JaiScanner -----------------------------
(***************************************************************************)
(* The external scanner of the packaged Jai grammar (scanner.c): one stack *)
(* of open heredoc words in memory, shared by every version of the parse.  *)
(* For each lookahead the parser restores the stack from the buffer stored *)
(* with the version's last external token, scans, and after a match stores *)
(* the stack again. Both loops run a word at a time over a byte buffer.    *)
(*                                                                         *)
(* A word is its length in characters; a buffer is the words in it and the *)
(* byte offsets they were written at. The parser is external: it scans in  *)
(* any order, with any input, copies and drops versions, and is replaced   *)
(* between files.                                                          *)
(***************************************************************************)
EXTENDS Naturals, Sequences

CONSTANTS
    Versions,       \* the parse versions
    Words,          \* the identifiers in the input
    Chars,          \* the length of each word
    BufferSize,     \* TREE_SITTER_SERIALIZATION_BUFFER_SIZE
    MaxOpen,        \* bound: heredocs open at once
    None            \* no identifier: scan_heredoc_word returns the empty word

ASSUME CharsAssumption == Chars \in [Words -> Nat \ {0}]
ASSUME BufferAssumption == BufferSize \in 8 .. 2048 /\ MaxOpen \in Nat
ASSUME NoneAssumption == None \notin Versions \cup Words

VARIABLES
    saved,          \* the buffer stored for each version
    stack,          \* scanner->heredocs
    phase,          \* idle, or inside deserialize, scan or serialize
    turn,           \* the version that is being lexed
    size,           \* the offset in the buffer
    offsets,        \* where serialize has written words
    match,          \* the symbol and word scan has recognised
    token           \* the last token the parser was given

vars == <<saved, stack, phase, turn, size, offsets, match, token>>

-----------------------------------------------------------------------------
Buffers == [length : Nat, count : 0 .. 255, words : Seq(Words), at : Seq(Nat)]

\* serialize gave up: a buffer of length 0.
Lost == [length |-> 0, count |-> 0, words |-> <<>>, at |-> <<>>]

\* The bytes a word takes: its length and four bytes a character.
Bytes(w) == 4 + 4 * Chars[w]

\* The words open in a stored state.
Heredocs(b) == b.words

Symbols == {"HEREDOC_START", "HEREDOC_END"}

TypeOK ==
    /\ saved \in [Versions -> Buffers]
    /\ stack \in Seq(Words)
    /\ phase \in {"idle", "read", "scan", "write"}
    /\ turn \in Versions
    /\ size \in Nat
    /\ offsets \in Seq(Nat)
    /\ match \in {None} \cup (Symbols \X Words)
    /\ token \in {None} \cup (Symbols \X Versions \X Words)

Init ==
    /\ saved = [v \in Versions |-> Lost]
    /\ stack = <<>>
    /\ phase = "idle"
    /\ turn \in Versions
    /\ size = 0
    /\ offsets = <<>>
    /\ match = None
    /\ token = None

-----------------------------------------------------------------------------
\* array_push, array_back and array_pop.
Push(s, w) == Append(s, w)
Top(s)     == s[Len(s)]
Pop(s)     == SubSeq(s, 1, Len(s) - 1)

\* Variant of Cleared: the words of the previous version stay.
NotCleared == stack

\* deserialize starts from an empty array.
Cleared == <<>>

\* The parser lexes version v with external symbols valid.
Deserialize(v) ==
    /\ phase = "idle"
    /\ turn' = v
    /\ stack' = Cleared
    /\ size' = IF saved[v].length = 0 THEN 0 ELSE 1
    /\ phase' = IF saved[v].length = 0 THEN "scan" ELSE "read"
    /\ UNCHANGED <<saved, offsets, match, token>>

\* One turn of the loop of deserialize: the word at the current offset.
ReadWord(k) ==
    /\ phase = "read"
    /\ Len(stack) < saved[turn].count
    /\ saved[turn].at[k] = size
    /\ stack' = Push(stack, saved[turn].words[k])
    /\ size' = size + Bytes(saved[turn].words[k])
    /\ UNCHANGED <<saved, phase, turn, offsets, match, token>>

EndRead ==
    /\ phase = "read"
    /\ Len(stack) = saved[turn].count
    /\ phase' = "scan"
    /\ UNCHANGED <<saved, stack, turn, size, offsets, match, token>>

-----------------------------------------------------------------------------
\* scan returns false: error recovery, no word, the wrong word, nothing open.
Refuse ==
    /\ phase = "scan"
    /\ phase' = "idle"
    /\ size' = 0
    /\ UNCHANGED <<saved, stack, turn, offsets, match, token>>

\* scan returns true, and serialize starts with the count.
Matched(symbol, w) ==
    /\ match' = <<symbol, w>>
    /\ phase' = "write"
    /\ size' = 1
    /\ offsets' = <<>>
    /\ UNCHANGED <<saved, turn, token>>

\* Variant of Closes: any open heredoc matches.
ClosesAny(w) == \E k \in 1 .. Len(stack) : stack[k] = w

\* string_eq of the word in the input and the heredoc opened last.
Closes(w) == stack # <<>> /\ Top(stack) = w

ScanEnd(w) ==
    /\ phase = "scan"
    /\ Closes(w)
    /\ stack' = Pop(stack)
    /\ Matched("HEREDOC_END", w)

\* A heredoc is opened by an identifier.
Starts(w) == w # None

ScanStart(w) ==
    /\ phase = "scan"
    /\ Len(stack) < MaxOpen
    /\ Starts(w)
    /\ stack' = Push(stack, w)
    /\ Matched("HEREDOC_START", w)

-----------------------------------------------------------------------------
\* Variant of Fits: only the length of the word is accounted for.
FitsHeader(w) == size + 5 < BufferSize

\* The bounds check of serialize.
Fits(w) == size + 5 + 4 * Chars[w] < BufferSize

\* One turn of the loop of serialize.
WriteWord ==
    /\ phase = "write"
    /\ Len(offsets) < Len(stack)
    /\ LET w == stack[Len(offsets) + 1] IN
        /\ Fits(w)
        /\ size' = size + Bytes(w)
    /\ offsets' = Append(offsets, size)
    /\ UNCHANGED <<saved, stack, phase, turn, match, token>>

\* The parser stores what serialize returns with the token.
Stored(b) ==
    /\ saved' = [saved EXCEPT ![turn] = b]
    /\ token' = <<match[1], turn, match[2]>>
    /\ match' = None
    /\ phase' = "idle"
    /\ size' = 0
    /\ offsets' = <<>>
    /\ UNCHANGED <<stack, turn>>

GiveUpWrite ==
    /\ phase = "write"
    /\ Len(offsets) < Len(stack)
    /\ ~Fits(stack[Len(offsets) + 1])
    /\ Stored(Lost)

\* Variant of CountByte: the count is taken before the push.
CountByteBefore(n) == (n + 255) % 256

\* The first byte of the buffer: (char)size, read back as uint8_t.
CountByte(n) == n % 256

EndWrite ==
    /\ phase = "write"
    /\ Len(offsets) = Len(stack)
    /\ Stored([length |-> size, count |-> CountByte(Len(stack)), words |-> stack, at |-> offsets])

\* The parser forks a version, or drops version u and reuses its place.
Fork(v, u) ==
    /\ phase = "idle"
    /\ v # u
    /\ saved' = [saved EXCEPT ![u] = saved[v]]
    /\ UNCHANGED <<stack, phase, turn, size, offsets, match, token>>

\* destroy and create: the next file is parsed by a new parser.
Recreate ==
    /\ phase = "idle"
    /\ saved' = [v \in Versions |-> Lost]
    /\ stack' = <<>>
    /\ token' = None
    /\ UNCHANGED <<phase, turn, size, offsets, match>>

Next ==
    \/ \E v \in Versions : Deserialize(v)
    \/ \E k \in 1 .. Len(saved[turn].at) : ReadWord(k)
    \/ EndRead
    \/ Refuse
    \/ \E w \in Words \cup {None} : ScanEnd(w) \/ ScanStart(w)
    \/ WriteWord
    \/ GiveUpWrite
    \/ EndWrite
    \/ \E v, u \in Versions : Fork(v, u)
    \/ Recreate

Spec == Init /\ [][Next]_vars

-----------------------------------------------------------------------------
(***************************************************************************)
(* Properties.                                                             *)
(***************************************************************************)

\* serialize and deserialize stay inside the buffer.
StaysInBuffer == size <= BufferSize

\* The assertion at the end of deserialize: it has read all that was written.
ReadsAllThatWasWritten ==
    phase = "read" /\ Len(stack) = saved[turn].count => size = saved[turn].length

\* The count of the open heredocs fits its byte in every stored state.
CountIsExact == \A v \in Versions : saved[v].count = Len(Heredocs(saved[v]))

\* scan sees the heredocs of the version that is lexed, not those another
\* version left in the scanner.
ScansItsOwnVersion == phase = "scan" => stack = Heredocs(saved[turn])

\* The scanner implements one stack for each version.
Stacks == INSTANCE HeredocStacks
              WITH open <- [v \in Versions |-> Heredocs(saved[v])], token <- token

ImplementsStacks == Stacks!Spec

=============================================================================
