--------------------------- MODULE PeerSyncAlone ---------------------------
(***************************************************************************)
(* PeerSync with a history variable: an apply that read the interface and  *)
(* ran on from there with nothing else happening in between.               *)
(***************************************************************************)
EXTENDS PeerSync

VARIABLE alone      \* history: the requests that do, one at most

aloneVars == <<vars, alone>>

InitAlone == Init /\ alone = {}

\* An apply gets its answer; no other request, nor a restart, ends its calm.
Reads(r) ==
    /\ req[r].op = "reading" /\ req'[r].op = "read"
    /\ req'[r].for = "apply" /\ req'[r].answer.how = "read"
Proceeds(r) == req'[r] \notin {req[r], Idle} /\ \A s \in Requests \ {r} : req'[s] = req[s]

NextAlone ==
    /\ Next
    /\ alone' = {r \in Requests : Reads(r) \/ (r \in alone /\ Proceeds(r))}

SpecAlone == InitAlone /\ [][NextAlone]_aloneVars

\* A peer imported without AllowedIPs is left out of every file.
LeftOut(k) == \E d \in Tracked(rows) : rows[d].key = k /\ rows[d].addr = None /\ rows[d].allowed = {}

(* "a sync preserves externally-added peers (FR-016)" (service.ts:138,     *)
(* :171): an apply that nothing disturbs takes no peer off the interface,  *)
(* whoever put it there and whatever the table, the files of earlier       *)
(* applies and the interface went through before.                          *)
SyncPreservesPeers ==
    [][\A r \in alone : req'[r] # req[r]
          => \A k \in Listed(live) : live'[k] # None \/ LeftOut(k)]_aloneVars
=============================================================================
