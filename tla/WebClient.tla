----------------------------- MODULE WebClient -----------------------------
(***************************************************************************)
(* The selected server in the web client (frontend/src/app/activeServer.ts *)
(* and its two users, pages/Servers.tsx and pages/Devices.tsx): kept in    *)
(* localStorage, repaired whenever a list of servers arrives, dropped when *)
(* the backend answers 404.                                                *)
(*                                                                         *)
(* Every load, and every action that ends with one, works on the selection *)
(* of the render it was started from; answers may arrive out of order.     *)
(***************************************************************************)
EXTENDS WebGate, FiniteSets
\* Definitions named Mut... are deliberate bugs, each tried in place of the
\* definition it precedes to see that a property notices; nothing else uses them.

CONSTANTS
    Servers,      \* servers that may ever be registered
    MaxTasks,     \* bound: actions and loads of a page under way
    MaxMishaps    \* bound: what befalls the client, or the operator does on a whim

VARIABLES
    servers,      \* the backend: the servers registered
    made,         \* ids given out: one is never given again
    stored,       \* the selection in localStorage
    active,       \* the selection in the page that is mounted
    listed,       \* the list on the Servers page, None before the first arrives
    tasks,        \* actions and loads under way in the page
    chosen,       \* history: the operator's last choice, while that server exists
    raced,        \* history: it was made while something was under way
    mishaps       \* how many there were

selection == <<stored, active, listed, tasks>>
history   == <<chosen, raced>>
vars      == <<gateVars, servers, made, selection, history, mishaps>>

Init ==
    /\ InitGate
    /\ servers \in SUBSET Servers /\ (exists \/ servers = {})
    /\ stored \in Servers \cup {None} /\ made = servers \cup ({stored} \ {None})
    /\ active = None /\ listed = None /\ tasks = {}
    /\ chosen = None /\ raced = FALSE /\ mishaps = 0

Allowed == signedIn /\ open      \* requireAuthAndUnlocked lets a request pass

Select(s) == active' = s /\ stored' = s
Task(was, drop, step) == [was |-> was, drop |-> drop, step |-> step, got |-> {}]

\* reconcileActiveServer; which server is first in the list is not told apart.
MutKeepsDead(was, list) == IF was # None THEN {was} ELSE IF list = {} THEN {None} ELSE list
Reconciled(was, list) ==
    IF list = {} THEN {None} ELSE IF was \in list THEN {was} ELSE list

(* A page that is mounted reads the selection, and loads.                  *)
Mount(p) ==
    /\ active' = stored /\ listed' = None
    /\ tasks' = IF p = "servers" \/ stored # None THEN {Task(stored, None, "asked")} ELSE {}
    /\ UNCHANGED stored

\* What answers arrive for a page that was left is of no effect.
Unmount == active' = None /\ listed' = None /\ tasks' = {} /\ UNCHANGED stored

\* The page after a step of the Gate.
Follow ==
    /\ IF ~Shown' THEN Unmount ELSE IF Shown /\ page' = page THEN UNCHANGED selection ELSE Mount(page')
    /\ UNCHANGED <<servers, made, history>>

-----------------------------------------------------------------------------
(* The radio button.                                                       *)
Choose(s) ==
    /\ Shown /\ page = "servers" /\ listed # None /\ s \in listed
    /\ Select(s)
    /\ chosen' = IF s \in servers THEN s ELSE None
    /\ raced' = (s \in servers /\ tasks # {})
    /\ UNCHANGED <<gateVars, servers, made, listed, tasks, mishaps>>

Starts(t) == Shown /\ Cardinality(tasks) < MaxTasks /\ tasks' = tasks \cup {t}

\* A server that is deleted elsewhere is no choice any more.
GivenUp(s) ==
    IF chosen = s THEN chosen' = None /\ raced' = FALSE ELSE UNCHANGED history
Deleted(s) == servers' = servers \ {s} /\ GivenUp(s)
Added(s)   == s \notin made /\ servers' = servers \cup {s} /\ made' = made \cup {s}

Register(s) ==
    /\ page = "servers" /\ Allowed /\ Added(s)
    /\ Starts(Task(active, None, "acting"))
    /\ UNCHANGED <<gateVars, stored, active, listed, history, mishaps>>

(* Apply, and the changes on the Devices page: the servers stay the same.  *)
(* Tasks that are alike count as one.                                      *)
Apply ==
    /\ page = "servers" /\ listed # None /\ listed # {}
    /\ Starts(Task(active, None, "acting"))
    /\ UNCHANGED <<gateVars, servers, made, stored, active, listed, history, mishaps>>
Change ==
    /\ page = "devices" /\ active # None
    /\ Starts(Task(active, None, "acting"))
    /\ UNCHANGED <<gateVars, servers, made, stored, active, listed, history, mishaps>>

(* The backend may fail to delete it: the page goes on as if it had not.   *)
Remove(s) ==
    /\ page = "servers" /\ listed # None /\ s \in listed
    /\ Starts(Task(active, s, "acting"))
    /\ servers' \in {servers} \cup (IF Allowed THEN {servers \ {s}} ELSE {})
    /\ GivenUp(s)
    /\ UNCHANGED <<gateVars, made, stored, active, listed, mishaps>>

Moves(t, u) == tasks' = (tasks \ {t}) \cup {u}

(* The action is answered; a load follows, with the selection it began on. *)
Acted(t) ==
    /\ t.step = "acting" /\ Moves(t, [t EXCEPT !.step = "asked", !.drop = None])
    /\ IF t.drop # None /\ t.drop = t.was THEN Select(None) ELSE UNCHANGED <<active, stored>>
    /\ UNCHANGED <<gateVars, servers, made, listed, history, mishaps>>

(* A load that fails is reported, and changes nothing; an action that fails*)
(* is reported, and nothing is loaded; a deletion's error is dropped.      *)
MutDropsChoice(t) ==
    /\ t.step = "asked" \/ (t.step = "acting" /\ t.drop = None)
    /\ tasks' = tasks \ {t}
    /\ IF page = "devices" THEN Select(None) ELSE UNCHANGED <<active, stored>>
    /\ UNCHANGED <<gateVars, servers, made, listed, history>>
Failed(t) ==
    /\ t.step = "asked" \/ (t.step = "acting" /\ t.drop = None)
    /\ tasks' = tasks \ {t}
    /\ UNCHANGED <<gateVars, servers, made, stored, active, listed, history>>
Refused(t) == ~Allowed /\ Failed(t) /\ UNCHANGED mishaps

Answered(t) ==
    /\ t.step = "asked" /\ Allowed
    /\ Moves(t, [t EXCEPT !.step = "answered", !.got = servers])
    /\ UNCHANGED <<gateVars, servers, made, stored, active, listed, history, mishaps>>

(* The list arrives: it is shown, and the selection the load began on is   *)
(* repaired and selected.                                                  *)
ListArrives(t) ==
    /\ page = "servers" /\ t.step = "answered" /\ tasks' = tasks \ {t}
    /\ listed' = t.got
    /\ \E s \in Reconciled(t.was, t.got) : Select(s)
    /\ UNCHANGED <<gateVars, servers, made, history, mishaps>>

(* The devices arrive, or a 404: the selected server is gone.              *)
DevicesArrive(t) ==
    /\ page = "devices" /\ t.step = "answered" /\ tasks' = tasks \ {t}
    /\ IF t.was \in t.got THEN UNCHANGED <<active, stored>> ELSE Select(None)
    /\ UNCHANGED <<gateVars, servers, made, listed, history, mishaps>>

TaskStep(t) == Acted(t) \/ Refused(t) \/ Answered(t) \/ ListArrives(t) \/ DevicesArrive(t)

(* Another client changes the servers.                                     *)
OtherDeletes(s) ==
    /\ s \in servers /\ Deleted(s)
    /\ UNCHANGED <<gateVars, made, selection>>
OtherAdds(s) ==
    /\ exists /\ Added(s)
    /\ UNCHANGED <<gateVars, selection, history>>

Happens ==
    /\ mishaps < MaxMishaps /\ mishaps' = mishaps + 1
    /\ \/ Mishap /\ Follow
       \/ tasks # {} /\ (\E p \in Shell : Link(p)) /\ Follow
       \/ \E t \in tasks : Failed(t)
       \/ \E s \in Servers : OtherDeletes(s) \/ OtherAdds(s)

Leads(A) == A /\ Follow /\ UNCHANGED mishaps
Strolls  == Leads(tasks = {} /\ \E p \in Shell : Link(p))

Next ==
    \/ Leads(GateStep) \/ Leads(Submit) \/ Strolls
    \/ \E p \in Pages : Leads(StartOver(p))
    \/ \E s \in Servers : Choose(s) \/ Register(s) \/ Remove(s)
    \/ Apply \/ Change
    \/ \E t \in tasks : TaskStep(t)
    \/ Happens

Spec == Init /\ [][Next]_vars

(* Requests are answered.  The operator fills in the form in front of them,*)
(* types another address when a page gets nowhere, and goes from page to   *)
(* page when nothing is under way.                                         *)
Fairness ==
    /\ WF_vars(Leads(BootAnswered \/ BootArrives)) /\ WF_vars(Leads(FormAnswered \/ FormArrives))
    /\ WF_vars(Leads(Submit)) /\ WF_vars(\E p \in Pages : Leads(StartOver(p)))
    /\ SF_vars(Strolls)
    /\ WF_vars(\E t \in tasks : Acted(t)) /\ WF_vars(\E t \in tasks : Answered(t) \/ Refused(t))
    /\ WF_vars(\E t \in tasks : ListArrives(t) \/ DevicesArrive(t))

FairSpec == Spec /\ Fairness

-----------------------------------------------------------------------------
(* The selection of the page is the stored one, and the row marked as      *)
(* selected is one of the table, or none is: also when lists arrive in     *)
(* another order than they were asked for, and while servers are deleted   *)
(* and registered from elsewhere (Servers.tsx load).                       *)
SelectionIsListed ==
    /\ active = IF Shown THEN stored ELSE None
    /\ listed # None => active \in listed \cup {None}

(* "Remember the operator's selected server across pages"                  *)
(* (activeServer.ts:5): a choice made while nothing was under way stays,   *)
(* through pages, refusals, sign-outs, reloads and other servers' coming   *)
(* and going, until its own server is deleted.                             *)
ChoiceSticks == chosen # None /\ ~raced => stored = chosen

(* A selection whose server is gone is repaired or dropped in the end, the *)
(* operator never having to know (activeServer.ts:27-35).                  *)
DeadSelectionHeals == stored \notin servers \cup {None} ~> stored \in servers \cup {None}

(* Whatever befalls the client, its operator gets to the pages again with  *)
(* a session and an open vault.                                            *)
PagesReached == []<>(Shown /\ Allowed)
=============================================================================
