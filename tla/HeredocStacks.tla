--------------------------- MODULE HeredocStacks ---------------------------
(***************************************************************************)
(* What the external scanner of the Jai grammar promises the parser: every *)
(* parse version has its own stack of open heredocs, HEREDOC_END is only   *)
(* recognised for the word opened last, and opening one heredoc too many   *)
(* forgets them all. Closing forgets nothing but the heredoc it closes.    *)
(***************************************************************************)
EXTENDS Naturals, Sequences

CONSTANTS Versions, Words, None

VARIABLES
    open,           \* the open heredocs of each version
    token           \* the last token recognised: its symbol, version and word

vars == <<open, token>>

Init == open = [v \in Versions |-> <<>>] /\ token = None

Open(v, w) ==
    /\ \/ open' = [open EXCEPT ![v] = Append(@, w)]
       \/ open' = [open EXCEPT ![v] = <<>>]
    /\ token' = <<"HEREDOC_START", v, w>>

Close(v, w) ==
    /\ open[v] # <<>>
    /\ w = open[v][Len(open[v])]
    /\ open' = [open EXCEPT ![v] = SubSeq(@, 1, Len(@) - 1)]
    /\ token' = <<"HEREDOC_END", v, w>>

\* The parser copies a version, or drops one and reuses its place.
Fork(v, u) == open' = [open EXCEPT ![u] = open[v]] /\ UNCHANGED token

\* The next file starts with nothing open.
Reset == Init'

Next ==
    \/ \E v \in Versions, w \in Words : Open(v, w) \/ Close(v, w)
    \/ \E v, u \in Versions : Fork(v, u)
    \/ Reset

Spec == Init /\ [][Next]_vars
=============================================================================
