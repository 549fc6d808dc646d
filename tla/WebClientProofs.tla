--------------------------- MODULE WebClientProofs ---------------------------
(***************************************************************************)
(* The selected server, for any number of servers and of loads and actions *)
(* under way.  The properties speak of the selection alone; what keeps it  *)
(* is what the tasks under way may yet do to it, so the invariant says of  *)
(* each which selection it was started with, and what it was told.         *)
(***************************************************************************)
EXTENDS WebClient, TLAPS

\* Only servers that were registered at some time are named.
Named == made \cup {None}

Typed ==
    /\ servers \subseteq made
    /\ stored \in Named /\ active \in Named
    /\ listed = None \/ listed \subseteq made

TasksTyped == \A t \in tasks :
    /\ t \in [was : Named, drop : Servers \cup {None},
              step : {"acting", "asked", "answered"}, got : SUBSET made]
    /\ t.step # "acting" => t.drop = None

\* A page that was left has nothing under way.
LeftAlone == ~Shown => tasks = {} /\ listed = None

\* A task that cannot take the operator's choice away.
Spares(t) ==
    /\ t.was = chosen /\ t.drop # chosen
    /\ t.step = "answered" => chosen \in t.got

ChoiceInv ==
    /\ chosen # None => chosen \in servers
    /\ ChoiceSticks
    /\ chosen # None /\ ~raced => \A t \in tasks : Spares(t)

IInv == Typed /\ TasksTyped /\ LeftAlone /\ SelectionIsListed /\ ChoiceInv

LEMMA InitInv == Init => IInv
BY DEF Init, InitGate, IInv, Typed, Named, TasksTyped, LeftAlone, SelectionIsListed, Shown,
       ChoiceInv, ChoiceSticks

-----------------------------------------------------------------------------
(* What the gate does to the page: it is left, it stays, or it is mounted, *)
(* with the selection that is stored.                                      *)
LEMMA FollowInv == ASSUME IInv, Follow PROVE IInv'
<1> USE DEF IInv
<1>1. UNCHANGED <<servers, made, chosen, raced>>
  BY DEF Follow, history
<1>2. CASE ~Shown' /\ Unmount
  BY <1>1, <1>2 DEF Unmount, Typed, Named, TasksTyped, LeftAlone, SelectionIsListed, ChoiceInv, ChoiceSticks
<1>3. CASE Shown' /\ Shown /\ UNCHANGED selection
  BY <1>1, <1>3 DEF selection, Typed, Named, TasksTyped, LeftAlone, SelectionIsListed,
                    ChoiceInv, ChoiceSticks, Spares
<1>4. CASE Shown' /\ Mount(page')
  <2>1. active' = stored /\ stored' = stored /\ listed' = None
    BY <1>4 DEF Mount
  <2>2. \A t \in tasks' : t = [was |-> stored, drop |-> None, step |-> "asked", got |-> {}]
    BY <1>4 DEF Mount, Task
  <2>3. Typed' /\ LeftAlone' /\ SelectionIsListed'
    BY <1>1, <1>4, <2>1 DEF Typed, Named, LeftAlone, SelectionIsListed
  <2>4. TasksTyped'
    BY <1>1, <2>2 DEF Typed, Named, TasksTyped
  <2>5. ChoiceInv'
    BY <1>1, <2>1, <2>2 DEF ChoiceInv, ChoiceSticks, Spares
  <2> QED BY <2>3, <2>4, <2>5
<1> QED BY <1>2, <1>3, <1>4 DEF Follow

(* The page stays, and so does everything but what a step names.           *)
LEMMA PageStays == ASSUME UNCHANGED gateVars PROVE Shown' = Shown /\ page' = page
BY DEF gateVars, Shown

LEMMA ChooseInv == ASSUME IInv, NEW s \in Servers, Choose(s) PROVE IInv'
<1>1. Shown' = Shown /\ page' = page
  BY PageStays DEF Choose
<1>2. Shown /\ s \in listed /\ listed # None /\ active' = s /\ stored' = s
      /\ UNCHANGED <<servers, made, listed, tasks>>
  BY DEF Choose, Select
<1>3. Typed' /\ TasksTyped' /\ LeftAlone' /\ SelectionIsListed'
  BY <1>1, <1>2 DEF IInv, Typed, Named, TasksTyped, LeftAlone, SelectionIsListed
<1>4. ChoiceInv'
  BY <1>2 DEF Choose, ChoiceInv, ChoiceSticks
<1> QED BY <1>3, <1>4 DEF IInv

(* An action begins with the selection of the page.                        *)
LEMMA StartsInv ==
    ASSUME IInv, NEW d \in Servers \cup {None}, Starts(Task(active, d, "acting")),
           UNCHANGED <<gateVars, stored, active, listed>>,
           made \subseteq made', servers' \subseteq made',
           \/ UNCHANGED history /\ (chosen # None => d # chosen /\ chosen \in servers')
           \/ chosen' = None
    PROVE  IInv'
<1>1. Shown /\ Shown' /\ page' = page
  BY PageStays DEF Starts
<1> DEFINE new == [was |-> active, drop |-> d, step |-> "acting", got |-> {}]
<1>2. tasks' = tasks \cup {new} /\ UNCHANGED <<stored, active, listed>>
  BY DEF Starts, Task
<1>3. active = stored
  BY <1>1 DEF IInv, SelectionIsListed
<1>4. Typed' /\ LeftAlone' /\ SelectionIsListed'
  BY <1>1, <1>2 DEF IInv, Typed, Named, LeftAlone, SelectionIsListed
<1>5. TasksTyped'
  <2>1. new \in [was : Named', drop : Servers \cup {None},
                 step : {"acting", "asked", "answered"}, got : SUBSET made']
    BY DEF IInv, Typed, Named
  <2>2. \A t \in tasks : t \in [was : Named', drop : Servers \cup {None},
                 step : {"acting", "asked", "answered"}, got : SUBSET made']
    BY DEF IInv, TasksTyped, Named
  <2> QED BY <1>2, <2>1, <2>2 DEF IInv, TasksTyped
<1>6. ChoiceInv'
  <2>1. CASE UNCHANGED history /\ (chosen # None => d # chosen /\ chosen \in servers')
    BY <1>2, <1>3, <2>1 DEF IInv, ChoiceInv, ChoiceSticks, Spares, history
  <2>2. CASE chosen' = None
    BY <2>2 DEF ChoiceInv, ChoiceSticks
  <2> QED BY <2>1, <2>2
<1> QED BY <1>4, <1>5, <1>6 DEF IInv

LEMMA RegisterInv == ASSUME IInv, NEW s \in Servers, Register(s) PROVE IInv'
<1>1. /\ Starts(Task(active, None, "acting")) /\ UNCHANGED <<gateVars, stored, active, listed, history>>
      /\ servers' = servers \cup {s} /\ made' = made \cup {s}
  BY DEF Register, Added
<1>2. chosen # None => chosen \in servers
  BY DEF IInv, ChoiceInv
<1> QED BY <1>1, <1>2, StartsInv DEF IInv, Typed

LEMMA ActionInv == ASSUME IInv, Apply \/ Change PROVE IInv'
<1>1. Starts(Task(active, None, "acting")) /\ UNCHANGED <<gateVars, stored, active, listed, history, servers, made>>
  BY DEF Apply, Change
<1>2. chosen # None => chosen \in servers
  BY DEF IInv, ChoiceInv
<1> QED BY <1>1, <1>2, StartsInv DEF IInv, Typed

LEMMA RemoveInv == ASSUME IInv, NEW s \in Servers, Remove(s) PROVE IInv'
<1>1. /\ Starts(Task(active, s, "acting")) /\ UNCHANGED <<gateVars, stored, active, listed, made>>
      /\ servers' \in {servers, servers \ {s}} /\ GivenUp(s)
  BY DEF Remove
<1>2. chosen # None => chosen \in servers
  BY DEF IInv, ChoiceInv
<1>3. servers' \subseteq made'
  BY <1>1 DEF IInv, Typed
<1>4. \/ UNCHANGED history /\ (chosen # None => s # chosen /\ chosen \in servers')
      \/ chosen' = None
  BY <1>1, <1>2 DEF GivenUp
<1> QED BY <1>1, <1>3, <1>4, StartsInv

-----------------------------------------------------------------------------
(* A task that moves on, or is over, and leaves the selection alone.       *)
LEMMA TaskInv ==
    ASSUME IInv, UNCHANGED <<gateVars, servers, made, stored, active, listed, history>>,
           \A u \in tasks' : \/ u \in tasks
                             \/ /\ u \in [was : Named, drop : Servers \cup {None},
                                          step : {"acting", "asked", "answered"}, got : SUBSET made]
                                /\ u.step # "acting" => u.drop = None
                                /\ chosen # None /\ ~raced => Spares(u),
           tasks = {} => tasks' = {}
    PROVE  IInv'
<1>1. Shown' = Shown
  BY PageStays
<1>2. Typed' /\ LeftAlone' /\ SelectionIsListed'
  BY <1>1 DEF IInv, Typed, Named, LeftAlone, SelectionIsListed
<1>3. TasksTyped'
  BY DEF IInv, TasksTyped, Named
<1>4. ChoiceInv'
  BY DEF IInv, ChoiceInv, ChoiceSticks, Spares, history
<1> QED BY <1>2, <1>3, <1>4 DEF IInv

LEMMA FailedInv == ASSUME IInv, NEW t \in tasks, Failed(t) PROVE IInv'
BY TaskInv DEF Failed

(* Servers that are asked for are there: the choice among them.            *)
LEMMA AnsweredInv == ASSUME IInv, NEW t \in tasks, Answered(t) PROVE IInv'
<1> DEFINE u == [t EXCEPT !.step = "answered", !.got = servers]
<1>1. tasks' = (tasks \ {t}) \cup {u} /\ t.step = "asked"
      /\ UNCHANGED <<gateVars, servers, made, stored, active, listed, history>>
  BY DEF Answered, Moves
<1>2. t \in [was : Named, drop : Servers \cup {None},
             step : {"acting", "asked", "answered"}, got : SUBSET made] /\ t.drop = None
  BY <1>1 DEF IInv, TasksTyped
<1>3. u \in [was : Named, drop : Servers \cup {None},
             step : {"acting", "asked", "answered"}, got : SUBSET made]
      /\ u.drop = None /\ u.was = t.was /\ u.got = servers
  BY <1>2 DEF IInv, Typed
<1>4. chosen # None /\ ~raced => Spares(u)
  BY <1>2, <1>3 DEF IInv, ChoiceInv, Spares
<1> HIDE DEF u
<1> QED BY <1>1, <1>3, <1>4, TaskInv

(* An action that is answered deselects the server it deleted, if that was *)
(* the selection it began with; and that is not the choice.                *)
LEMMA ActedInv == ASSUME IInv, NEW t \in tasks, Acted(t) PROVE IInv'
<1> DEFINE u == [t EXCEPT !.step = "asked", !.drop = None]
<1>1. tasks' = (tasks \ {t}) \cup {u} /\ t.step = "acting"
      /\ UNCHANGED <<gateVars, servers, made, listed, history>>
  BY DEF Acted, Moves
<1>2. u \in [was : Named, drop : Servers \cup {None},
             step : {"acting", "asked", "answered"}, got : SUBSET made]
      /\ u.drop = None /\ u.was = t.was /\ u.step = "asked"
  BY DEF IInv, TasksTyped
<1>3. chosen # None /\ ~raced => Spares(u) /\ t.drop # t.was
  BY <1>2 DEF IInv, ChoiceInv, Spares
<1> HIDE DEF u
<1>4. CASE UNCHANGED <<active, stored>>
  BY <1>1, <1>2, <1>3, <1>4, TaskInv
<1>5. CASE active' = None /\ stored' = None /\ t.drop = t.was
  <2>1. Shown' = Shown /\ Shown
    BY <1>1, PageStays DEF IInv, LeftAlone
  <2>2. Typed' /\ LeftAlone' /\ SelectionIsListed'
    BY <1>1, <1>5, <2>1 DEF IInv, Typed, Named, LeftAlone, SelectionIsListed
  <2>3. TasksTyped'
    BY <1>1, <1>2 DEF IInv, TasksTyped, Named
  <2>4. ChoiceInv'
    BY <1>1, <1>3, <1>5 DEF IInv, ChoiceInv, ChoiceSticks, history
  <2> QED BY <2>2, <2>3, <2>4 DEF IInv
<1> QED BY <1>4, <1>5 DEF Acted, Select

(* A list, or the devices, arrive, and the page selects: a server of the   *)
(* list, or none; and the choice, if that is what the load began with.     *)
LEMMA SelectsInv ==
    ASSUME IInv, NEW t \in tasks, NEW s, Select(s), tasks' = tasks \ {t},
           UNCHANGED <<gateVars, servers, made, history>>,
           s \in Named, listed' = None \/ (listed' \subseteq made /\ s \in listed' \cup {None}),
           chosen # None /\ ~raced => s = chosen
    PROVE  IInv'
<1>1. Shown' = Shown /\ Shown
  BY PageStays DEF IInv, LeftAlone
<1>2. Typed' /\ LeftAlone' /\ SelectionIsListed'
  BY <1>1 DEF IInv, Typed, Named, LeftAlone, SelectionIsListed, Select
<1>3. TasksTyped'
  BY DEF IInv, TasksTyped, Named
<1>4. ChoiceInv'
  BY DEF IInv, ChoiceInv, ChoiceSticks, Spares, history, Select
<1> QED BY <1>2, <1>3, <1>4 DEF IInv

LEMMA ListArrivesInv == ASSUME IInv, NEW t \in tasks, ListArrives(t) PROVE IInv'
<1>1. PICK s \in Reconciled(t.was, t.got) : Select(s)
  BY DEF ListArrives
<1>2. tasks' = tasks \ {t} /\ listed' = t.got /\ t.step = "answered"
      /\ UNCHANGED <<gateVars, servers, made, history>>
  BY DEF ListArrives
<1>3. t.got \subseteq made /\ t.was \in Named
  BY DEF IInv, TasksTyped
<1>4. s \in t.got \cup {None}
  BY <1>1 DEF Reconciled
<1>5. chosen # None /\ ~raced => s = chosen
  BY <1>1, <1>2 DEF IInv, ChoiceInv, Spares, Reconciled
<1>6. s \in Named
  BY <1>3, <1>4 DEF Named
<1> QED BY <1>1, <1>2, <1>3, <1>4, <1>5, <1>6, SelectsInv

LEMMA DevicesArriveInv == ASSUME IInv, NEW t \in tasks, DevicesArrive(t) PROVE IInv'
<1>1. tasks' = tasks \ {t} /\ t.step = "answered"
      /\ UNCHANGED <<gateVars, servers, made, listed, history>>
  BY DEF DevicesArrive
<1>2. CASE t.was \in t.got
  BY <1>1, <1>2, TaskInv DEF DevicesArrive
<1>3. CASE t.was \notin t.got
  <2>1. ~(chosen # None /\ ~raced)
    BY <1>1, <1>3 DEF IInv, ChoiceInv, Spares
  <2> QED BY <1>1, <1>3, <2>1, SelectsInv DEF DevicesArrive, IInv, Typed, Named
<1> QED BY <1>2, <1>3

-----------------------------------------------------------------------------
(* Other clients, behind the page's back.                                  *)
LEMMA OthersInv == ASSUME IInv, NEW s \in Servers, OtherDeletes(s) \/ OtherAdds(s) PROVE IInv'
<1>1. Shown' = Shown
  BY PageStays DEF OtherDeletes, OtherAdds
<1>2. UNCHANGED <<stored, active, listed, tasks>> /\ made \subseteq made' /\ servers' \subseteq made'
  BY DEF OtherDeletes, OtherAdds, Deleted, Added, selection, IInv, Typed
<1>3. Typed' /\ LeftAlone' /\ SelectionIsListed'
  BY <1>1, <1>2 DEF IInv, Typed, Named, LeftAlone, SelectionIsListed
<1>4. TasksTyped'
  BY <1>2 DEF IInv, TasksTyped, Named
<1>5. ChoiceInv'
  <2>1. \/ chosen' = None
        \/ UNCHANGED history /\ (chosen # None => chosen \in servers')
    BY DEF OtherDeletes, OtherAdds, Deleted, Added, GivenUp, IInv, ChoiceInv
  <2> QED BY <1>2, <2>1 DEF IInv, ChoiceInv, ChoiceSticks, Spares, history
<1> QED BY <1>3, <1>4, <1>5 DEF IInv

LEMMA NextInv == IInv /\ [Next]_vars => IInv'
<1> SUFFICES ASSUME IInv, [Next]_vars PROVE IInv'
  OBVIOUS
<1>1. CASE Leads(GateStep) \/ Leads(Submit) \/ Strolls \/ \E p \in Pages : Leads(StartOver(p))
  BY <1>1, FollowInv DEF Leads, Strolls
<1>2. ASSUME NEW s \in Servers, Choose(s) \/ Register(s) \/ Remove(s) PROVE IInv'
  BY <1>2, ChooseInv, RegisterInv, RemoveInv
<1>3. CASE Apply \/ Change
  BY <1>3, ActionInv
<1>4. ASSUME NEW t \in tasks, TaskStep(t) PROVE IInv'
  BY <1>4, ActedInv, FailedInv, AnsweredInv, ListArrivesInv, DevicesArriveInv DEF TaskStep, Refused
<1>5. CASE Happens
  BY <1>5, FollowInv, FailedInv, OthersInv DEF Happens
<1>6. CASE UNCHANGED vars
  <2>1. UNCHANGED <<gateVars, servers, made, stored, active, listed, tasks, history>>
    BY <1>6 DEF vars, selection
  <2> QED BY <2>1, TaskInv
<1> QED BY <1>1, <1>2, <1>3, <1>4, <1>5, <1>6 DEF Next

LEMMA SpecInv == Spec => []IInv
BY InitInv, NextInv, PTL DEF Spec

(* The row that is marked is a row of the table, and the page's selection  *)
(* the stored one, with any number of loads under way, whichever answer    *)
(* comes first (Servers.tsx load, activeServer.ts).                        *)
THEOREM ClientSelectionIsListed == Spec => []SelectionIsListed
<1>1. IInv => SelectionIsListed
  BY DEF IInv
<1> QED BY <1>1, SpecInv, PTL

(* "Remember the operator's selected server across pages"                  *)
(* (activeServer.ts:5), if it was selected while nothing was under way.    *)
THEOREM ClientChoiceSticks == Spec => []ChoiceSticks
<1>1. IInv => ChoiceSticks
  BY DEF IInv, ChoiceInv
<1> QED BY <1>1, SpecInv, PTL
=============================================================================
