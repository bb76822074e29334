-------------------------------- MODULE LabelLog --------------------------------
(***************************************************************************)
(* What the correction store promises its editors: every clip has a log of *)
(* edits; an edit joins it only as the successor of the revision its       *)
(* editor saw, each request at most once; and an edit that was             *)
(* acknowledged is in the log for good.                                    *)
(***************************************************************************)
EXTENDS Naturals, Sequences

CONSTANTS
    Clips,      \* the clips that can be corrected
    Edits       \* records with a clip, a request and an expected revision

VARIABLES
    log,        \* the edits of every clip, in order of revision
    saved       \* edits that were acknowledged

Logged(e) == \E i \in 1 .. Len(log[e.clip]) : log[e.clip][i] = e

\* A request joins the logs once, whatever clip it names.
Fresh(request) ==
    \A c \in Clips : \A i \in 1 .. Len(log[c]) : log[c][i].request # request

Init ==
    /\ log = [c \in Clips |-> <<>>]
    /\ saved = {}

Save(e) ==
    /\ e.expected = Len(log[e.clip])
    /\ Fresh(e.request)
    /\ log' = [log EXCEPT ![e.clip] = Append(@, e)]

\* Saving and acknowledging may fall together, and the acknowledgement may be
\* repeated or lost.
Next ==
    \E e \in Edits :
        \/ Save(e) /\ saved' \in {saved, saved \cup {e}}
        \/ Logged(e) /\ saved' = saved \cup {e} /\ UNCHANGED log

Spec == Init /\ [][Next]_<<log, saved>>
=============================================================================
