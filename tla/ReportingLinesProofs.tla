------------------------ MODULE ReportingLinesProofs ------------------------
(***************************************************************************)
(* ReportingLines for every set of pods and employees: its types, that     *)
(* undisturbed checks prevent reporting cycles, and that they move people  *)
(* under active managers.                                                    *)
(***************************************************************************)
EXTENDS ReportingLines, TLAPS

-----------------------------------------------------------------------------
(* The inductive invariant. *)

\* Managers, and whatever a session holds of them, are rows.
RowsExist ==
    /\ \A e \in People : manager[e] \in Hired \cup {None, NotHired}
    /\ \A p \in Pods, e \in People : seen[p][e] \in Hired \cup {None, Unread}
    /\ \A p \in Pods : req[p].op = "move" =>
           /\ req[p].employee \in Hired /\ req[p].to \in Hired
           /\ req[p].at \in Hired \cup {None}

\* What the session of an undisturbed move holds is still in the table, and
\* its walk has followed every edge from the new manager on to where it is.
WalkIsTrue(p) ==
    /\ \A e \in People : seen[p][e] # Unread => seen[p][e] = manager[e]
    /\ req[p].fit = isActive[req[p].to]
    /\ req[p].employee \notin req[p].visited
    /\ req[p].to \in req[p].visited \cup {req[p].at}
    /\ \A e \in req[p].visited : manager[e] \in req[p].visited \cup {req[p].at}

WalksAreTrue ==
    \A p \in Pods : req[p].op = "move" /\ p \notin crossed => WalkIsTrue(p)

LinesInv == LinesTypeOK /\ RowsExist /\ WalksAreTrue /\ CyclesAreExplained

ReqType == Move \cup Chart \cup {NoRequest}

\* An id is none of the three codes.
LEMMA IdsAreNotCodes ==
    \A e \in People : e # None /\ e # NotHired /\ e # Unread
  BY ReportingAssumption DEF None, NotHired, Unread

\* Nobody exists at the start.
LEMMA LinesInitInv == LinesInit => LinesInv
<1> SUFFICES ASSUME LinesInit PROVE LinesInv
  OBVIOUS
<1>1. LinesTypeOK
  BY DEF LinesInit, LinesTypeOK, Nothing
<1>2. RowsExist /\ WalksAreTrue
  BY DEF LinesInit, RowsExist, WalksAreTrue, Nothing, NoRequest
<1>3. CyclesAreExplained
  BY IdsAreNotCodes DEF LinesInit, CyclesAreExplained, Loop
<1> QED BY <1>1, <1>2, <1>3 DEF LinesInv

\* Reading a row keeps what the session holds well typed and made of rows.
LEMMA GotRows ==
    ASSUME NEW known \in [People -> People \cup {None, Unread}], NEW x \in People,
           \A e \in People : known[e] \in Hired \cup {None, Unread},
           \A e \in People : manager[e] \in Hired \cup {None, NotHired}
    PROVE  /\ Got(known, x) \in [People -> People \cup {None, Unread}]
           /\ \A e \in People : Got(known, x)[e] \in Hired \cup {None, Unread}
           /\ \A e \in People : Got(known, x)[e] \in {known[e], manager[e]}
           /\ \A e \in People : known[e] # Unread => Got(known, x)[e] = known[e]
           /\ x \in Hired => Got(known, x)[x] \in Hired \cup {None}
  BY IdsAreNotCodes DEF Got, Hired, NotHired, Unread, None

LEMMA GotWithManagerRows ==
    ASSUME NEW known \in [People -> People \cup {None, Unread}], NEW x \in People,
           \A e \in People : known[e] \in Hired \cup {None, Unread},
           \A e \in People : manager[e] \in Hired \cup {None, NotHired}
    PROVE  /\ GotWithManager(known, x) \in [People -> People \cup {None, Unread}]
           /\ \A e \in People : GotWithManager(known, x)[e] \in Hired \cup {None, Unread}
           /\ \A e \in People : GotWithManager(known, x)[e] \in {known[e], manager[e]}
<1>1. CASE manager[x] \in People
  BY <1>1, GotRows DEF GotWithManager
<1>2. CASE manager[x] \notin People
  BY <1>2, GotRows DEF GotWithManager
<1> QED BY <1>1, <1>2

\* A session starts empty.
LEMMA NothingKnown ==
    /\ Nothing \in [People -> People \cup {None, Unread}]
    /\ \A e \in People : Nothing[e] = Unread
  BY DEF Nothing

-----------------------------------------------------------------------------
(* The steps. *)

\* A step of p that writes no row: p's request becomes r and it holds known.
LEMMA ReadStep ==
    ASSUME LinesInv, NEW p \in Pods, NEW r \in ReqType,
           NEW known \in [People -> People \cup {None, Unread}],
           UNCHANGED <<manager, isActive, blame, writes>>,
           crossed' = crossed \/ crossed' = crossed \ {p},
           req' = [req EXCEPT ![p] = r], seen' = [seen EXCEPT ![p] = known],
           \A e \in People : known[e] \in Hired \cup {None, Unread},
           r.op = "move" => /\ r.employee \in Hired /\ r.to \in Hired
                            /\ r.at \in Hired \cup {None},
           r.op = "move" /\ p \notin crossed' => WalkIsTrue(p)'
    PROVE  LinesInv'
<1>1. LinesTypeOK'
  BY DEF LinesInv, LinesTypeOK, ReqType
<1>2. req'[p] = r /\ seen'[p] = known /\ Hired' = Hired
  BY DEF LinesInv, LinesTypeOK, Hired
<1>3. ASSUME NEW q \in Pods, q # p
      PROVE  /\ req'[q] = req[q] /\ seen'[q] = seen[q]
             /\ q \in crossed' <=> q \in crossed
  BY <1>3 DEF LinesInv, LinesTypeOK
<1>4. RowsExist'
  BY <1>2, <1>3 DEF LinesInv, RowsExist
<1>5. WalksAreTrue'
  <2> SUFFICES ASSUME NEW q \in Pods, req'[q].op = "move", q \notin crossed'
               PROVE  WalkIsTrue(q)'
    BY DEF WalksAreTrue
  <2>1. CASE q = p
    BY <1>2, <2>1
  <2>2. CASE q # p
    BY <1>3, <2>2 DEF LinesInv, WalksAreTrue, WalkIsTrue
  <2> QED BY <2>1, <2>2
<1>6. CyclesAreExplained'
  BY DEF LinesInv, CyclesAreExplained, Loop
<1> QED BY <1>1, <1>4, <1>5, <1>6 DEF LinesInv

\* A step of p that commits changed rows: the other moves are crossed.
LEMMA WriteStep ==
    ASSUME LinesInv, NEW p \in Pods, Committed(p), req'[p] = NoRequest,
           req' \in [Pods -> ReqType],
           seen' \in [Pods -> [People -> People \cup {None, Unread}]],
           \A q \in Pods : q # p => req'[q] = req[q],
           \A q \in Pods, e \in People : seen'[q][e] \in {seen[q][e], Unread},
           isActive' \in [People -> BOOLEAN],
           blame' \in [People -> {"checked", "unchecked", "overtaken"}],
           NEW e \in Hired, NEW m \in Hired \cup {None},
           manager' = manager \/ manager' = [manager EXCEPT ![e] = m],
           CyclesAreExplained'
    PROVE  LinesInv'
<1>1. manager' \in [People -> People \cup {None, NotHired}] /\ Hired' = Hired
  <2>1. manager \in [People -> People \cup {None, NotHired}]
    BY DEF LinesInv, LinesTypeOK
  <2>2. CASE manager' = manager
    BY <2>1, <2>2 DEF Hired
  <2>3. CASE manager' = [manager EXCEPT ![e] = m]
    <3>1. e \in People /\ m \in People \cup {None} /\ m # NotHired
      BY IdsAreNotCodes DEF Hired, None, NotHired
    <3>2. \A x \in People : manager'[x] = IF x = e THEN m ELSE manager[x]
      BY <2>1, <2>3, <3>1
    <3>3. Hired' = Hired
      BY <3>1, <3>2 DEF Hired
    <3> QED BY <2>1, <2>3, <3>1, <3>3
  <2> QED BY <2>2, <2>3
<1>2. LinesTypeOK'
  BY <1>1 DEF LinesInv, LinesTypeOK, ReqType, Committed
<1>3. RowsExist'
  <2>1. ASSUME NEW x \in People PROVE manager'[x] \in Hired' \cup {None, NotHired}
    BY <1>1 DEF LinesInv, LinesTypeOK, RowsExist
  <2>2. ASSUME NEW q \in Pods, NEW x \in People
        PROVE seen'[q][x] \in Hired' \cup {None, Unread}
    BY <1>1 DEF LinesInv, RowsExist
  <2>3. ASSUME NEW q \in Pods, req'[q].op = "move" PROVE q # p /\ req'[q] = req[q]
    BY <2>3 DEF NoRequest
  <2> QED BY <1>1, <2>1, <2>2, <2>3 DEF LinesInv, RowsExist
<1>4. WalksAreTrue'
  <2> SUFFICES ASSUME NEW q \in Pods, req'[q].op = "move" PROVE q \in crossed'
    BY DEF WalksAreTrue
  <2>1. q # p
    BY DEF NoRequest
  <2> QED BY <2>1 DEF Committed, NoRequest
<1> QED BY <1>2, <1>3, <1>4 DEF LinesInv

\* A cycle that the write of e's manager does not close was there before.
LEMMA OtherCycles ==
    ASSUME CyclesAreExplained, NEW e \in People,
           \A x \in People : x # e => manager'[x] = manager[x] /\ blame'[x] = blame[x],
           NEW T \in SUBSET People, e \notin T, Loop(manager', T)
    PROVE  \E x \in T : blame'[x] \in {"unchecked", "overtaken"}
<1>1. Loop(manager, T)
  BY DEF Loop
<1>2. PICK x \in T : blame[x] \in {"unchecked", "overtaken"}
  BY <1>1 DEF CyclesAreExplained
<1> QED BY <1>2

\* A new employee is nobody's manager.
LEMMA HireInv ==
    ASSUME LinesInv, NEW p \in Pods, NEW e \in People, NEW m \in People \cup {None},
           HireUnder(p, e, m)
    PROVE  LinesInv'
<1>1. /\ manager' = [manager EXCEPT ![e] = m] /\ manager[e] = NotHired
      /\ m \in Hired \cup {None} /\ e \notin Hired
      /\ UNCHANGED <<isActive, req, seen, blame, crossed, writes>>
  BY DEF HireUnder, Hired
<1>2. LinesTypeOK'
  BY <1>1 DEF LinesInv, LinesTypeOK
<1>3. Hired' = Hired \cup {e}
  BY <1>1, IdsAreNotCodes DEF LinesInv, LinesTypeOK, Hired, None, NotHired
<1>4. ASSUME NEW x \in People, x # e PROVE manager'[x] = manager[x]
  BY <1>1, <1>4 DEF LinesInv, LinesTypeOK
<1>5. RowsExist'
  <2>1. ASSUME NEW x \in People PROVE manager'[x] \in Hired' \cup {None, NotHired}
    BY <1>1, <1>3, <1>4 DEF LinesInv, LinesTypeOK, RowsExist
  <2> QED BY <1>1, <1>3, <2>1 DEF LinesInv, RowsExist
<1>6. WalksAreTrue'
  <2> SUFFICES ASSUME NEW q \in Pods, req[q].op = "move", q \notin crossed
               PROVE  WalkIsTrue(q)'
    BY <1>1 DEF WalksAreTrue
  <2>1. WalkIsTrue(q) /\ req[q].at \in Hired \cup {None} /\ req[q] \in Move
    BY DEF LinesInv, WalksAreTrue, RowsExist, LinesTypeOK, Move, Chart, NoRequest
  <2>2. ASSUME NEW x \in People, seen[q][x] # Unread PROVE seen[q][x] = manager'[x]
    <3>1. seen[q][x] = manager[x]
      BY <2>1, <2>2 DEF WalkIsTrue
    <3>2. x # e
      BY <1>1, <2>2, <3>1 DEF NotHired, Unread
    <3> QED BY <1>4, <3>1, <3>2
  <2>3. ASSUME NEW x \in req[q].visited
        PROVE manager'[x] \in req[q].visited \cup {req[q].at}
    <3>1. x \in People /\ manager[x] \in req[q].visited \cup {req[q].at}
      BY <2>1, <2>3 DEF WalkIsTrue, Move
    <3>2. manager[x] # NotHired
      BY <2>1, <3>1, IdsAreNotCodes DEF Move, None, NotHired
    <3> QED BY <1>1, <1>4, <3>1, <3>2
  <2> QED BY <1>1, <2>1, <2>2, <2>3 DEF WalkIsTrue
<1>7. CyclesAreExplained'
  <2> SUFFICES ASSUME NEW T \in SUBSET People, Loop(manager', T)
               PROVE  \E x \in T : blame[x] \in {"unchecked", "overtaken"}
    BY <1>1 DEF CyclesAreExplained, Loop
  <2>1. ASSUME NEW x \in T, x # e PROVE manager[x] \in T \ {e}
    <3>1. manager[x] \in T
      BY <1>4, <2>1 DEF Loop
    <3>2. manager[x] \in Hired
      BY <3>1, IdsAreNotCodes DEF LinesInv, RowsExist
    <3> QED BY <1>1, <3>1, <3>2
  <2>2. T \ {e} # {}
    <3>1. CASE e \in T
      <4>1. m \in T
        BY <1>1, <3>1 DEF Loop, LinesInv, LinesTypeOK
      <4>2. m \in Hired
        BY <1>1, <4>1, IdsAreNotCodes
      <4> QED BY <1>1, <4>1, <4>2
    <3>2. CASE e \notin T
      BY <3>2 DEF Loop
    <3> QED BY <3>1, <3>2
  <2>3. Loop(manager, T \ {e})
    BY <2>1, <2>2 DEF Loop
  <2> QED BY <2>3 DEF LinesInv, CyclesAreExplained
<1> QED BY <1>2, <1>5, <1>6, <1>7 DEF LinesInv

\* update_employee() and terminate_employee() blame the edge or write none.
LEMMA UpdateInv ==
    ASSUME LinesInv, NEW p \in Pods, NEW e \in People, NEW m \in People \cup {None},
           UpdateManager(p, e, m) \/ UpdateActive(p, e) \/ Terminate(p, e)
             \/ ClearManager(p, e)
    PROVE  LinesInv'
<1>1. /\ e \in Hired /\ req[p] = NoRequest /\ UNCHANGED <<req, seen>> /\ Committed(p)
  BY DEF UpdateManager, UpdateActive, Terminate, ClearManager, Ready
<1>2. PICK n \in Hired \cup {None} : \/ UNCHANGED <<manager, blame>>
                                   \/ manager' = [manager EXCEPT ![e] = n]
  BY DEF UpdateManager, UpdateActive, Terminate, ClearManager
<1>3. /\ isActive' \in [People -> BOOLEAN]
      /\ blame' \in [People -> {"checked", "unchecked", "overtaken"}]
  BY DEF LinesInv, LinesTypeOK, UpdateManager, UpdateActive, Terminate, ClearManager
<1>4. CyclesAreExplained'
  <2> SUFFICES ASSUME NEW T \in SUBSET People, Loop(manager', T)
               PROVE  \E x \in T : blame'[x] \in {"unchecked", "overtaken"}
    BY DEF CyclesAreExplained, Loop
  <2>1. CASE UpdateActive(p, e) \/ Terminate(p, e)
    BY <2>1 DEF UpdateActive, Terminate, LinesInv, CyclesAreExplained, Loop
  <2>2. CASE UpdateManager(p, e, m)
    <3>1. CASE e \in T
      BY <2>2, <3>1 DEF UpdateManager, LinesInv, LinesTypeOK
    <3>2. CASE e \notin T
      BY <2>2, <3>2, OtherCycles DEF UpdateManager, LinesInv, LinesTypeOK
    <3> QED BY <3>1, <3>2
  <2>3. CASE ClearManager(p, e)
    <3>1. e \notin T
      BY <2>3, IdsAreNotCodes DEF ClearManager, LinesInv, LinesTypeOK, Loop
    <3> QED BY <2>3, <3>1, OtherCycles DEF ClearManager, LinesInv, LinesTypeOK
  <2> QED BY <2>1, <2>2, <2>3
<1>5. req \in [Pods -> ReqType] /\ seen \in [Pods -> [People -> People \cup {None, Unread}]]
  BY DEF LinesInv, LinesTypeOK, ReqType
<1> QED BY <1>1, <1>2, <1>3, <1>4, <1>5, WriteStep

\* An answered request holds nothing.
LEMMA RespondInv ==
    ASSUME LinesInv, NEW p \in Pods, Respond(p), UNCHANGED <<manager, isActive, blame, writes>>,
           crossed' = crossed \ {p}
    PROVE  LinesInv'
<1>1. NoRequest \in ReqType /\ NoRequest.op # "move"
  BY DEF ReqType, NoRequest
<1> QED BY <1>1, NothingKnown, ReadStep DEF Respond

\* The first reads of a move and of a chart.
LEMMA StartMoveInv ==
    ASSUME LinesInv, NEW p \in Pods, NEW e \in People, NEW m \in People,
           StartMove(p, e, m) \/ StartChart(p, e)
    PROVE  LinesInv'
<1> DEFINE k == GotWithManager(Nothing, e)
           r == [op |-> "move", employee |-> e, to |-> m,
                 fit |-> isActive[m], at |-> m, visited |-> {}]
           c == [op |-> "chart", at |-> e]
<1>1. /\ k \in [People -> People \cup {None, Unread}]
      /\ \A x \in People : k[x] \in Hired \cup {None, Unread}
      /\ \A x \in People : k[x] \in {Unread, manager[x]}
  BY NothingKnown, GotWithManagerRows DEF LinesInv, RowsExist
<1>2. CASE StartChart(p, e)
  <2>1. c \in ReqType /\ c.op # "move"
    BY DEF ReqType, Chart
  <2> QED BY <1>1, <1>2, <2>1, ReadStep DEF StartChart
<1>3. CASE StartMove(p, e, m)
  <2> DEFINE l == Got(k, m)
  <2>1. /\ l \in [People -> People \cup {None, Unread}]
        /\ \A x \in People : l[x] \in Hired \cup {None, Unread}
        /\ \A x \in People : l[x] \in {k[x], manager[x]}
    BY <1>1, GotRows DEF LinesInv, RowsExist
  <2>2. r \in ReqType
    BY DEF ReqType, Move, LinesInv, LinesTypeOK
  <2>3. req'[p] = r /\ seen'[p] = l /\ UNCHANGED <<manager, isActive>>
    BY <1>3 DEF StartMove, LinesInv, LinesTypeOK
  <2>4. WalkIsTrue(p)'
    BY <1>1, <2>1, <2>3 DEF WalkIsTrue
  <2> QED BY <1>3, <2>1, <2>2, <2>4, ReadStep DEF StartMove
<1> QED BY <1>2, <1>3

\* One manager further up.
LEMMA WalkInv ==
    ASSUME LinesInv, NEW p \in Pods, Climb(p) \/ ChainUp(p)
    PROVE  LinesInv'
<1>1. CASE ChainUp(p)
  <2> DEFINE m == seen[p][req[p].at]
             c == [req[p] EXCEPT !.at = m]
  <2>1. c \in ReqType /\ c.op # "move" /\ m \in People
    BY <1>1 DEF ChainUp, LinesInv, LinesTypeOK, ReqType, Move, Chart, NoRequest
  <2> DEFINE k == GotWithManager(seen[p], m)
  <2>2. /\ k \in [People -> People \cup {None, Unread}]
        /\ \A x \in People : k[x] \in Hired \cup {None, Unread}
    BY <2>1, GotWithManagerRows DEF LinesInv, LinesTypeOK, RowsExist
  <2>3. req' = [req EXCEPT ![p] = c] /\ seen' = [seen EXCEPT ![p] = k]
    BY <1>1 DEF ChainUp, LinesInv, LinesTypeOK
  <2> QED BY <1>1, <2>1, <2>2, <2>3, ReadStep DEF ChainUp
<1>2. CASE Climb(p)
  <2> DEFINE x == req[p].at
             k == Got(seen[p], x)
             r == [req[p] EXCEPT !.at = k[x], !.visited = @ \cup {x}]
  <2>1. req[p] \in Move /\ x \in Hired
    BY <1>2 DEF Climb, LinesInv, LinesTypeOK, RowsExist, Move, Chart, NoRequest
  <2>2. x \in People
    BY <2>1 DEF Hired
  <2>3. /\ k \in [People -> People \cup {None, Unread}]
        /\ \A y \in People : k[y] \in Hired \cup {None, Unread}
        /\ \A y \in People : k[y] \in {seen[p][y], manager[y]}
        /\ k[x] \in Hired \cup {None}
    BY <2>1, <2>2, GotRows DEF LinesInv, LinesTypeOK, RowsExist
  <2>4. /\ r.op = "move" /\ r.employee = req[p].employee /\ r.to = req[p].to
        /\ r.fit = req[p].fit /\ r.at = k[x] /\ r.visited = req[p].visited \cup {x}
    BY <2>1 DEF Move
  <2>5. r \in ReqType
    BY <2>1, <2>2, <2>3, <2>4 DEF ReqType, Move, Hired
  <2>6. req' = [req EXCEPT ![p] = r] /\ seen' = [seen EXCEPT ![p] = k]
    BY <1>2 DEF Climb
  <2>7. req'[p] = r /\ seen'[p] = k /\ UNCHANGED <<manager, isActive, crossed>>
    BY <1>2, <2>6 DEF Climb, LinesInv, LinesTypeOK
  <2>8. ASSUME p \notin crossed' PROVE WalkIsTrue(p)'
    <3>1. WalkIsTrue(p)
      BY <1>2, <2>7, <2>8 DEF Climb, LinesInv, WalksAreTrue
    <3>2. ASSUME NEW y \in People, k[y] # Unread PROVE k[y] = manager[y]
      BY <2>3, <3>1, <3>2 DEF WalkIsTrue
    <3>3. k[x] = manager[x]
      BY <2>2, <2>3, <3>2, IdsAreNotCodes DEF Hired, None, Unread
    <3>4. x # req[p].employee
      BY <1>2 DEF Climb, Circular
    <3> QED BY <2>4, <2>7, <3>1, <3>2, <3>3, <3>4 DEF WalkIsTrue
  <2>9. r.employee \in Hired /\ r.to \in Hired /\ r.at \in Hired \cup {None}
    BY <1>2, <2>3, <2>4 DEF Climb, LinesInv, RowsExist
  <2> QED BY <1>2, <2>3, <2>5, <2>6, <2>8, <2>9, ReadStep DEF Climb
<1> QED BY <1>1, <1>2

\* The commit of a move: if nothing was written beside it, the walk went
\* through a set without e that no edge leaves, so a cycle through e would
\* also have a part in that set, which was there before.
LEMMA CommitCycles ==
    ASSUME LinesInv, NEW p \in Pods, req[p].op = "move", CommitMove(p),
           seen[p][req[p].employee] # req[p].to
    PROVE  CyclesAreExplained'
<1> DEFINE e == req[p].employee
           m == req[p].to
           V == req[p].visited
<1>1. /\ e \in People /\ m \in People /\ V \subseteq People /\ req[p].at = None
  BY DEF CommitMove, LinesInv, LinesTypeOK, Move, Chart, NoRequest
<1>2. /\ manager'[e] = m
      /\ blame'[e] = IF p \in crossed THEN "overtaken" ELSE "checked"
      /\ \A x \in People : x # e => manager'[x] = manager[x] /\ blame'[x] = blame[x]
  BY <1>1 DEF CommitMove, LinesInv, LinesTypeOK
<1> SUFFICES ASSUME NEW T \in SUBSET People, Loop(manager', T)
             PROVE  \E x \in T : blame'[x] \in {"unchecked", "overtaken"}
  BY DEF CyclesAreExplained, Loop
<1>3. CASE e \notin T
  BY <1>1, <1>2, <1>3, OtherCycles DEF LinesInv
<1>4. CASE e \in T /\ p \in crossed
  BY <1>2, <1>4
<1>5. CASE e \in T /\ p \notin crossed
  <2>1. WalkIsTrue(p)
    BY <1>5 DEF LinesInv, WalksAreTrue
  <2>2. e \notin V /\ m \in V /\ \A x \in V : manager[x] \in V \cup {None}
    BY <1>1, <2>1, IdsAreNotCodes DEF WalkIsTrue
  <2>3. m \in T
    BY <1>2, <1>5 DEF Loop
  <2>4. ASSUME NEW x \in T \cap V PROVE manager[x] \in T \cap V
    <3>1. x # e
      BY <2>2
    <3>2. manager[x] \in T
      BY <1>2, <3>1 DEF Loop
    <3> QED BY <2>2, <3>2, IdsAreNotCodes
  <2>5. Loop(manager, T \cap V)
    BY <2>2, <2>3, <2>4 DEF Loop
  <2>6. PICK x \in T \cap V : blame[x] \in {"unchecked", "overtaken"}
    BY <2>5 DEF LinesInv, CyclesAreExplained
  <2> QED BY <1>2, <2>2, <2>6
<1> QED BY <1>3, <1>4, <1>5

LEMMA CommitMoveInv ==
    ASSUME LinesInv, NEW p \in Pods, CommitMove(p)
    PROVE  LinesInv'
<1> DEFINE e == req[p].employee
           m == req[p].to
<1>1. req[p].op = "move" /\ Respond(p) /\ UNCHANGED isActive
  BY DEF CommitMove
<1>2. CASE seen[p][e] = m
  <2>1. UNCHANGED <<manager, blame, writes>> /\ crossed' = crossed \ {p}
    BY <1>2 DEF CommitMove
  <2> QED BY <1>1, <2>1, RespondInv
<1>3. CASE seen[p][e] # m
  <2>1. e \in Hired /\ m \in Hired \cup {None}
    BY <1>1 DEF LinesInv, RowsExist
  <2>2. /\ manager' = [manager EXCEPT ![e] = m] /\ Committed(p)
        /\ blame' = [blame EXCEPT ![e] = IF p \in crossed THEN "overtaken" ELSE "checked"]
    BY <1>3 DEF CommitMove
  <2>3. CyclesAreExplained'
    BY <1>1, <1>3, CommitCycles
  <2>4. /\ req' \in [Pods -> ReqType] /\ req'[p] = NoRequest
        /\ \A q \in Pods : q # p => req'[q] = req[q]
    BY <1>1 DEF Respond, LinesInv, LinesTypeOK, ReqType
  <2>5. /\ seen' \in [Pods -> [People -> People \cup {None, Unread}]]
        /\ \A q \in Pods, x \in People : seen'[q][x] \in {seen[q][x], Unread}
    BY <1>1, NothingKnown DEF Respond, LinesInv, LinesTypeOK
  <2>6. /\ isActive' \in [People -> BOOLEAN]
        /\ blame' \in [People -> {"checked", "unchecked", "overtaken"}]
    BY <1>1, <2>2 DEF LinesInv, LinesTypeOK
  <2> QED BY <2>1, <2>2, <2>3, <2>4, <2>5, <2>6, WriteStep
<1> QED BY <1>2, <1>3

LEMMA LinesNextInv == LinesInv /\ [LinesNext]_lineVars => LinesInv'
<1> SUFFICES ASSUME LinesInv, [LinesNext]_lineVars PROVE LinesInv'
  OBVIOUS
<1>1. CASE UNCHANGED lineVars
  BY <1>1 DEF lineVars, LinesInv, LinesTypeOK, RowsExist, Hired, WalksAreTrue, WalkIsTrue,
              CyclesAreExplained, Loop
<1>2. CASE LinesNext
  <2> PICK p \in Pods :
          \/ \E e \in People, m \in People \cup {None} :
                 HireUnder(p, e, m) \/ UpdateManager(p, e, m)
          \/ \E e, m \in People : StartMove(p, e, m)
          \/ \E e \in People : \/ UpdateActive(p, e) \/ Terminate(p, e)
                                  \/ ClearManager(p, e) \/ StartChart(p, e)
          \/ Work(p) \/ AbortRequest(p)
    BY <1>2 DEF LinesNext
  <2>1. ASSUME NEW e \in People, NEW m \in People \cup {None},
               HireUnder(p, e, m) \/ UpdateManager(p, e, m)
        PROVE  LinesInv'
    BY <2>1, HireInv, UpdateInv
  <2>2. ASSUME NEW e \in People, NEW m \in People, StartMove(p, e, m) PROVE LinesInv'
    BY <2>2, StartMoveInv
  <2>3. ASSUME NEW e \in People, UpdateActive(p, e) \/ Terminate(p, e) \/ ClearManager(p, e)
        PROVE  LinesInv'
    <3>1. None \in People \cup {None}
      OBVIOUS
    <3> QED BY <2>3, <3>1, UpdateInv
  <2>4. ASSUME NEW e \in People, StartChart(p, e) PROVE LinesInv'
    BY <2>4, StartMoveInv
  <2>5. CASE Climb(p) \/ ChainUp(p)
    BY <2>5, WalkInv
  <2>6. CASE RefuseMove(p) \/ ChartDone(p) \/ AbortRequest(p)
    BY <2>6, RespondInv DEF RefuseMove, ChartDone, AbortRequest
  <2>7. CASE CommitMove(p)
    BY <2>7, CommitMoveInv
  <2> QED BY <2>1, <2>2, <2>3, <2>4, <2>5, <2>6, <2>7 DEF Work
<1> QED BY <1>1, <1>2

-----------------------------------------------------------------------------
(* The theorems. *)

\* The strengthening holds in every reachable state.
THEOREM LinesInvariance == LinesSpec => []LinesInv
<1>1. LinesInit => LinesInv
  BY LinesInitInv
<1>2. LinesInv /\ [LinesNext]_lineVars => LinesInv'
  BY LinesNextInv
<1> QED BY <1>1, <1>2, PTL DEF LinesSpec

\* The variables keep their types.
THEOREM LinesTypes == LinesSpec => []LinesTypeOK
<1>1. LinesInv => LinesTypeOK
  BY DEF LinesInv
<1> QED BY <1>1, LinesInvariance, PTL

\* update_reporting_relationship() closes no reporting cycle as long as nothing
\* is committed between its first read and its commit.
THEOREM CyclesExplained == LinesSpec => []CyclesAreExplained
<1>1. LinesInv => CyclesAreExplained
  BY DEF LinesInv
<1> QED BY <1>1, LinesInvariance, PTL

\* ... and then it only puts people under managers who are still active.
THEOREM MoveUnderActive == LinesSpec => MovedUnderActive
<1> DEFINE A == \A p \in Pods, e \in People :
                    CommitMove(p) /\ p \notin crossed /\ manager'[e] # manager[e]
                        => isActive[manager'[e]]
<1>1. LinesInv /\ [LinesNext]_lineVars => [A]_lineVars
  <2> SUFFICES ASSUME LinesInv, NEW p \in Pods, NEW e \in People,
                      CommitMove(p), p \notin crossed, manager'[e] # manager[e]
               PROVE  isActive[manager'[e]]
    OBVIOUS
  <2>1. /\ req[p].op = "move" /\ ~Refused(req[p]) /\ req[p].at = None
        /\ manager' = [manager EXCEPT ![req[p].employee] = req[p].to]
    BY DEF CommitMove
  <2>2. manager'[e] = req[p].to
    BY <2>1 DEF LinesInv, LinesTypeOK
  <2>3. WalkIsTrue(p)
    BY <2>1 DEF LinesInv, WalksAreTrue
  <2> QED BY <2>1, <2>2, <2>3 DEF WalkIsTrue, Refused
<1> HIDE DEF A
<1>2. LinesSpec => [][A]_lineVars
  BY <1>1, LinesInvariance, PTL DEF LinesSpec
<1> QED BY <1>2 DEF MovedUnderActive, A
=============================================================================
