------------------------- MODULE SessionStoreProofs -------------------------
(***************************************************************************)
(* SessionStore for every set of processes and sessions, every default_ttl *)
(* and lifetimes below and above it: a deleted session comes back only     *)
(* through a call that had read it, and the index of the user outlives     *)
(* every session it must find.                                             *)
(***************************************************************************)
EXTENDS SessionStore, TLAPS

\* Only what was created is anywhere.
OnlyCreated ==
    /\ gone \subseteq created
    /\ \A s \in SessionIds : Live(s) => s \in created
    /\ \A p \in Pods : call[p].do \in {"ttl", "extend"} => call[p].id \in created

\* A call that will write a session back has read it: if the session has been
\* deleted since, the deletion overlapped it.
WritersOverlap ==
    \A p \in Pods : call[p].do \in {"ttl", "extend"} /\ call[p].id \in gone =>
        call[p].id \in overlapped

\* What delete_session() takes out of the index it has deleted before, and a
\* session that comes back is excused for good.
DeletedFirst ==
    /\ \A p \in Pods : At(p, "untrack") => call[p].id \in gone
    /\ \A s \in gone : Live(s) => s \in excused

\* The index does not expire before a session it must find.
IndexOutlives == \A s \in SessionIds : Live(s) /\ s \notin excused => ttl[s] <= index.left

\* What a delete_user_sessions() has listed and passed is gone, or it came back or
\* could not be deleted.
Passed(c) == IF c.do \in {"each", "delete", "untrack"} THEN c.listed \ c.all ELSE {}
PassedAreExcused == \A p \in Pods : \A s \in Passed(call[p]) : Live(s) => s \in excused

SessionInv == /\ SessionTypeOK
              /\ OnlyCreated
              /\ WritersOverlap
              /\ DeletedFirst
              /\ IndexOutlives
              /\ PassedAreExcused
              /\ DeletedStaysDeleted
              /\ LiveIsTracked

Tracking  == [do : {"track", "expire"}, id : SessionIds, for : 1..Longest]
Extending == [do : {"ttl", "extend"}, id : SessionIds, left : 0..Longest]
Deleting  == [do : {"delete", "untrack"}, id : SessionIds, known : BOOLEAN,
              all : SUBSET SessionIds, listed : SUBSET SessionIds]
DeletingAll == [do : {"each"}, all : SUBSET SessionIds, listed : SUBSET SessionIds]

\* The step a call is at tells what it knows.
LEMMA Calls ==
    /\ NoCall.do = "none" /\ NoCall \notin Call
    /\ \A c \in Call : c \in Tracking \cup Extending \cup Deleting \cup DeletingAll
    /\ Tracking \cup Extending \cup Deleting \cup DeletingAll \subseteq Call
    /\ \A c \in Tracking : /\ c.do \in {"track", "expire"}
                           /\ c.id \in SessionIds /\ c.for \in 1..Longest
                           /\ [c EXCEPT !.do = "expire"] \in Tracking
                           /\ [c EXCEPT !.do = "expire"].do = "expire"
    /\ \A c \in Extending : c.do \in {"ttl", "extend"} /\ c.id \in SessionIds /\ c.left \in 0..Longest
    /\ \A c \in Deleting : /\ c.do \in {"delete", "untrack"} /\ c.id \in SessionIds
                           /\ c.all \in SUBSET SessionIds /\ c.listed \in SUBSET SessionIds
                           /\ [c EXCEPT !.do = "untrack"] \in Deleting
                           /\ [c EXCEPT !.do = "untrack"].do = "untrack"
                           /\ [c EXCEPT !.do = "untrack"].id = c.id
                           /\ [c EXCEPT !.do = "untrack"].all = c.all
                           /\ [c EXCEPT !.do = "untrack"].listed = c.listed
    /\ \A c \in DeletingAll : /\ c.do = "each"
                              /\ c.all \in SUBSET SessionIds /\ c.listed \in SUBSET SessionIds
<1>1. NoCall.do = "none"
  BY DEF NoCall
<1>2. /\ \A c \in Call : c \in Tracking \cup Extending \cup Deleting \cup DeletingAll
      /\ Tracking \cup Extending \cup Deleting \cup DeletingAll \subseteq Call
  BY DEF Call, Tracking, Extending, Deleting, DeletingAll
<1>3. \A c \in Tracking :
          /\ c.do \in {"track", "expire"} /\ c.id \in SessionIds /\ c.for \in 1..Longest
          /\ [c EXCEPT !.do = "expire"] \in Tracking
          /\ [c EXCEPT !.do = "expire"].do = "expire"
  BY DEF Tracking
<1>4. \A c \in Extending : c.do \in {"ttl", "extend"} /\ c.id \in SessionIds /\ c.left \in 0..Longest
  BY DEF Extending
<1>5. \A c \in Deleting : /\ c.do \in {"delete", "untrack"} /\ c.id \in SessionIds
                          /\ c.all \in SUBSET SessionIds /\ c.listed \in SUBSET SessionIds
                          /\ [c EXCEPT !.do = "untrack"] \in Deleting
                          /\ [c EXCEPT !.do = "untrack"].do = "untrack"
                          /\ [c EXCEPT !.do = "untrack"].id = c.id
                          /\ [c EXCEPT !.do = "untrack"].all = c.all
                          /\ [c EXCEPT !.do = "untrack"].listed = c.listed
  BY DEF Deleting
<1>6. \A c \in DeletingAll : /\ c.do = "each"
                              /\ c.all \in SUBSET SessionIds /\ c.listed \in SUBSET SessionIds
  BY DEF DeletingAll
<1>7. NoCall \notin Call
  BY <1>1, <1>2, <1>3, <1>4, <1>5, <1>6
<1> QED BY <1>1, <1>2, <1>3, <1>4, <1>5, <1>6, <1>7

\* What a call at a step knows
LEMMA CallsAt ==
    ASSUME SessionTypeOK, NEW p \in Pods
    PROVE  /\ At(p, "track") \/ At(p, "expire") => call[p] \in Tracking
           /\ At(p, "ttl") \/ At(p, "extend") => call[p] \in Extending
           /\ At(p, "delete") \/ At(p, "untrack") => call[p] \in Deleting
           /\ At(p, "each") => call[p] \in DeletingAll
<1>1. \/ call[p] = NoCall
      \/ call[p] \in Call /\ call[p] \in Tracking \cup Extending \cup Deleting \cup DeletingAll
  BY Calls DEF SessionTypeOK
<1>2. CASE call[p] = NoCall
  BY <1>2, Calls DEF At
<1>3. CASE call[p] \in Tracking \cup Extending
  BY <1>3, Calls DEF At
<1>4. CASE call[p] \in Deleting \cup DeletingAll
  BY <1>4, Calls DEF At
<1> QED BY <1>1, <1>2, <1>3, <1>4

\* What a call has passed are sessions.
LEMMA PassedType ==
    ASSUME SessionTypeOK, NEW p \in Pods
    PROVE  Passed(call[p]) \subseteq SessionIds
<1>1. CASE call[p].do \in {"each", "delete", "untrack"}
  <2>1. call[p] \in Deleting \cup DeletingAll
    BY <1>1, CallsAt DEF At
  <2>2. call[p].listed \in SUBSET SessionIds
    BY <2>1, Calls
  <2> QED BY <2>2 DEF Passed
<1>2. CASE call[p].do \notin {"each", "delete", "untrack"}
  BY <1>2 DEF Passed
<1> QED BY <1>1, <1>2

\* The call of p becomes c.
LEMMA GotoStep ==
    ASSUME SessionTypeOK, NEW p \in Pods, NEW c \in Call \cup {NoCall}, Goto(p, c)
    PROVE  /\ call' \in [Pods -> Call \cup {NoCall}]
           /\ \A q \in Pods : call'[q] = IF q = p THEN c ELSE call[q]
  BY DEF SessionTypeOK, Goto

\* Without sessions and calls the invariant holds.
LEMMA SessionInitInv == SessionInit => SessionInv
<1> SUFFICES ASSUME SessionInit PROVE SessionInv
  OBVIOUS
<1>1. SessionTypeOK
  <2>1. 0 \in 0..Longest /\ 0 \in 0..Forever
    BY SessionAssumption DEF Forever
  <2> QED BY <2>1 DEF SessionInit, SessionTypeOK
<1>2. (\A s \in SessionIds : ~Live(s)) /\ (\A p \in Pods : call[p].do = "none") /\ gone = {}
  BY Calls DEF SessionInit, Live
<1>3. PassedAreExcused
  BY <1>2 DEF PassedAreExcused, Passed
<1> QED BY <1>1, <1>2, <1>3 DEF SessionInit, SessionInv, OnlyCreated, WritersOverlap, DeletedFirst,
                                IndexOutlives, DeletedStaysDeleted, LiveIsTracked, At

\* A step that only moves the call of p on, to c.
LEMMA MoveInv ==
    ASSUME SessionInv, NEW p \in Pods, NEW c \in Call \cup {NoCall}, Goto(p, c),
           UNCHANGED <<ttl, index, created, gone, overlapped, excused>>,
           c.do \in {"ttl", "extend"} => /\ c.id \in created
                                         /\ c.id \in gone => c.id \in overlapped,
           c.do # "untrack",
           \A s \in Passed(c) : Live(s) => s \in excused
    PROVE  SessionInv'
<1>1. /\ call' \in [Pods -> Call \cup {NoCall}]
      /\ \A q \in Pods : call'[q] = IF q = p THEN c ELSE call[q]
  BY GotoStep DEF SessionInv
<1>2. SessionTypeOK'
  BY <1>1 DEF SessionInv, SessionTypeOK
<1>3. OnlyCreated' /\ WritersOverlap' /\ DeletedFirst'
  BY <1>1 DEF SessionInv, OnlyCreated, WritersOverlap, DeletedFirst, Live, At
<1>4. IndexOutlives' /\ DeletedStaysDeleted' /\ LiveIsTracked'
  BY DEF SessionInv, IndexOutlives, DeletedStaysDeleted, LiveIsTracked, Live
<1>5. PassedAreExcused'
  BY <1>1 DEF SessionInv, PassedAreExcused, Passed, Live
<1> QED BY <1>2, <1>3, <1>4, <1>5 DEF SessionInv

\* create_session() stores a session that was never deleted; it is excused until it is tracked.
LEMMA CreateInv ==
    ASSUME SessionInv, NEW p \in Pods, NEW s \in SessionIds, NEW t \in 1..Longest, Create(p, s, t)
    PROVE  SessionInv'
<1> DEFINE c == [do |-> "track", id |-> s, for |-> t]
<1>1. c \in Call /\ c.do = "track"
  <2>1. c \in Tracking
    BY DEF Tracking
  <2> QED BY <2>1, Calls
<1>2. /\ s \notin created /\ created' = created \cup {s}
      /\ Goto(p, c) /\ ttl' = [ttl EXCEPT ![s] = t] /\ excused' = excused \cup {s}
      /\ UNCHANGED <<index, gone, overlapped>>
  BY DEF Create, Begins
<1> HIDE DEF c
<1>3. /\ call' \in [Pods -> Call \cup {NoCall}]
      /\ \A q \in Pods : call'[q] = IF q = p THEN c ELSE call[q]
  BY <1>1, <1>2, GotoStep DEF SessionInv
<1>4. \A r \in SessionIds : ttl'[r] = IF r = s THEN t ELSE ttl[r]
  BY <1>2 DEF SessionInv, SessionTypeOK
<1>5. SessionTypeOK'
  BY <1>2, <1>3, SessionAssumption DEF SessionInv, SessionTypeOK
<1>6. OnlyCreated' /\ WritersOverlap' /\ DeletedFirst'
  BY <1>1, <1>2, <1>3, <1>4
  DEF SessionInv, SessionTypeOK, OnlyCreated, WritersOverlap, DeletedFirst, Live, At
<1>7. IndexOutlives' /\ DeletedStaysDeleted' /\ LiveIsTracked'
  BY <1>2, <1>4
  DEF SessionInv, SessionTypeOK, OnlyCreated, IndexOutlives, DeletedStaysDeleted, LiveIsTracked,
      Live
<1>8. PassedAreExcused'
  <2> SUFFICES ASSUME NEW q \in Pods, NEW r \in Passed(call'[q]), ttl'[r] > 0
               PROVE  r \in excused'
    BY DEF PassedAreExcused, Passed, Live
  <2>1. q # p /\ r \in Passed(call[q])
    BY <1>1, <1>3 DEF Passed
  <2>2. r \in SessionIds
    BY <2>1, PassedType DEF SessionInv
  <2> QED BY <1>2, <1>4, <2>1, <2>2 DEF SessionInv, PassedAreExcused, Live
<1> QED BY <1>5, <1>6, <1>7, <1>8 DEF SessionInv

\* A step of p that writes the index, which still covers what is not excused.
LEMMA IndexInv ==
    ASSUME SessionInv, NEW p \in Pods, NEW c \in Call \cup {NoCall}, Goto(p, c),
           c.do \notin {"ttl", "extend", "untrack"},
           UNCHANGED <<ttl, created, gone, overlapped>>,
           index' \in [ids : SUBSET SessionIds, left : 0..Forever],
           excused' \subseteq SessionIds,
           \A s \in gone : Live(s) => s \in excused',
           \A s \in SessionIds : Live(s) /\ s \notin excused' =>
               s \in index'.ids /\ ttl[s] <= index'.left,
           \A s \in Passed(c) : Live(s) => s \in excused',
           \A q \in Pods \ {p} : \A s \in Passed(call[q]) : Live(s) => s \in excused'
    PROVE  SessionInv'
<1>1. /\ call' \in [Pods -> Call \cup {NoCall}]
      /\ \A q \in Pods : call'[q] = IF q = p THEN c ELSE call[q]
  BY GotoStep DEF SessionInv
<1>2. SessionTypeOK'
  BY <1>1 DEF SessionInv, SessionTypeOK
<1>3. OnlyCreated' /\ WritersOverlap' /\ DeletedFirst'
  BY <1>1 DEF SessionInv, OnlyCreated, WritersOverlap, DeletedFirst, Live, At
<1>4. IndexOutlives' /\ DeletedStaysDeleted' /\ LiveIsTracked'
  BY DEF SessionInv, IndexOutlives, DeletedStaysDeleted, LiveIsTracked, Live
<1>5. PassedAreExcused'
  BY <1>1 DEF PassedAreExcused, Passed, Live
<1> QED BY <1>2, <1>3, <1>4, <1>5 DEF SessionInv

\* The numbers that matter
LEMMA Times ==
    ASSUME SessionTypeOK
    PROVE  /\ Longest \in Nat /\ Longest >= 1 /\ Default \in 1..Longest
           /\ Forever \in Nat /\ Forever = 2 * Longest + 1
           /\ \A s \in SessionIds : ttl[s] \in Nat /\ ttl[s] <= Longest
           /\ index.ids \in SUBSET SessionIds /\ index.left \in Nat /\ index.left <= Forever
<1>1. /\ Longest \in Nat /\ Longest >= 1 /\ Default \in 1..Longest
      /\ Forever \in Nat /\ Forever = 2 * Longest + 1
  BY SessionAssumption DEF Forever
<1>2. \A s \in SessionIds : ttl[s] \in 0..Longest
  BY DEF SessionTypeOK
<1>3. index.ids \in SUBSET SessionIds /\ index.left \in 0..Forever
  BY DEF SessionTypeOK
<1> QED BY <1>1, <1>2, <1>3

\* A hash that tracks sessions has the type of the index.
LEMMA IndexType ==
    ASSUME NEW ids \in SUBSET SessionIds, NEW n \in Nat, n <= Forever
    PROVE  [ids |-> ids, left |-> n] \in [ids : SUBSET SessionIds, left : 0..Forever]
<1>1. n \in 0..Forever
  BY SessionAssumption DEF Forever
<1> QED BY <1>1

\* Tracking adds a session, and an index without an expiry lasts at least as long.
LEMMA TrackInv ==
    ASSUME SessionInv, NEW p \in Pods, Track(p)
    PROVE  SessionInv'
<1> DEFINE c == [call[p] EXCEPT !.do = "expire"]
           n == IF index.left = 0 THEN Forever ELSE index.left
           ids == index.ids \cup {call[p].id}
<1>1. /\ c \in Call /\ c.do = "expire" /\ ids \in SUBSET SessionIds
      /\ \A s \in index.ids : s \in ids
  BY CallsAt, Calls, Times DEF Track, SessionInv
<1>2. /\ n \in Nat /\ n <= Forever /\ index.left <= n
  BY Times DEF SessionInv
<1>3. /\ index' = [ids |-> ids, left |-> n] /\ Goto(p, c)
      /\ UNCHANGED <<ttl, created, gone, overlapped, excused>>
  BY DEF Track
<1> HIDE DEF c, n, ids
<1>4. index' \in [ids : SUBSET SessionIds, left : 0..Forever]
  BY <1>1, <1>2, <1>3, IndexType
<1>5. \A s \in SessionIds : Live(s) /\ s \notin excused => s \in index'.ids /\ ttl[s] <= index'.left
  BY <1>1, <1>2, <1>3, Times DEF SessionInv, IndexOutlives, LiveIsTracked
<1>6. excused' \subseteq SessionIds /\ \A s \in gone : Live(s) => s \in excused'
  BY <1>3 DEF SessionInv, SessionTypeOK, DeletedFirst
<1>7. Passed(c) = {} /\ \A q \in Pods : \A s \in Passed(call[q]) : Live(s) => s \in excused'
  BY <1>1, <1>3 DEF Passed, SessionInv, PassedAreExcused
<1> QED BY <1>1, <1>3, <1>4, <1>5, <1>6, <1>7, IndexInv

\* The index forgets what would outlive it.
LEMMA ExpireIndexInv ==
    ASSUME SessionInv, NEW p \in Pods, ExpireIndex(p)
    PROVE  SessionInv'
<1> DEFINE t == call[p].for
           s == call[p].id
           found == s \in index.ids \ gone /\ ttl[s] <= 2 * t /\ ~Listed(s)
<1>1. t \in Nat /\ 1 <= t /\ t <= Longest /\ s \in SessionIds
  <2>1. t \in 1..Longest /\ s \in SessionIds
    BY CallsAt, Calls DEF ExpireIndex, SessionInv
  <2> QED BY <2>1, Times DEF SessionInv
<1>2. /\ index' = IF index.ids = {} THEN index ELSE [index EXCEPT !.left = 2 * t]
      /\ excused' = (excused \cup {r \in SessionIds : ttl[r] > 2 * t})
                       \ (IF found THEN {s} ELSE {})
      /\ Goto(p, NoCall) /\ UNCHANGED <<ttl, created, gone, overlapped>>
  BY DEF ExpireIndex
<1>3. /\ index'.ids = index.ids
      /\ index.ids # {} => index'.left = 2 * t
      /\ index' \in [ids : SUBSET SessionIds, left : 0..Forever]
  <2>1. CASE index.ids = {}
    BY <1>2, <2>1 DEF SessionInv, SessionTypeOK
  <2>2. CASE index.ids # {}
    <3>1. index' = [ids |-> index.ids, left |-> 2 * t]
      BY <1>2, <2>2 DEF SessionInv, SessionTypeOK
    <3>2. 2 * t \in Nat /\ 2 * t <= Forever
      BY <1>1, Times DEF SessionInv
    <3> QED BY <3>1, <3>2, IndexType, Times DEF SessionInv
  <2> QED BY <2>1, <2>2
<1>4. excused' \subseteq SessionIds /\ \A r \in gone : Live(r) => r \in excused'
  BY <1>2 DEF SessionInv, SessionTypeOK, DeletedFirst
<1>5. ASSUME NEW r \in SessionIds, Live(r), r \notin excused'
      PROVE  r \in index'.ids /\ ttl[r] <= index'.left
  <2>1. ttl[r] <= 2 * t
    BY <1>1, <1>2, <1>5, Times DEF SessionInv
  <2>2. r \in index.ids
    BY <1>2, <1>5 DEF SessionInv, LiveIsTracked
  <2> QED BY <1>3, <2>1, <2>2
<1>6. ASSUME NEW q \in Pods, NEW r \in Passed(call[q]), Live(r)
      PROVE  r \in excused'
  <2>1. r \in excused /\ Listed(r)
    BY <1>6 DEF SessionInv, PassedAreExcused, Passed, Listed
  <2> QED BY <1>2, <2>1
<1>7. Passed(NoCall) = {}
  BY Calls DEF Passed
<1> HIDE DEF found
<1> QED BY <1>2, <1>3, <1>4, <1>5, <1>6, <1>7, Calls, IndexInv

\* A session is written back with a time to live of n.
LEMMA RewriteInv ==
    ASSUME SessionInv, NEW p \in Pods, At(p, "extend"), NEW s \in SessionIds, s = call[p].id,
           NEW n \in 1..Longest, ttl' = [ttl EXCEPT ![s] = n], excused' = excused \cup {s},
           Goto(p, NoCall), UNCHANGED <<index, created, gone, overlapped>>
    PROVE  SessionInv'
<1>1. /\ call' \in [Pods -> Call \cup {NoCall}]
      /\ \A q \in Pods : call'[q] = IF q = p THEN NoCall ELSE call[q]
  BY GotoStep DEF SessionInv
<1>2. \A r \in SessionIds : ttl'[r] = IF r = s THEN n ELSE ttl[r]
  BY DEF SessionInv, SessionTypeOK
<1>3. s \in created /\ (s \in gone => s \in overlapped)
  BY DEF SessionInv, OnlyCreated, WritersOverlap, At
<1>4. SessionTypeOK'
  BY <1>1, SessionAssumption DEF SessionInv, SessionTypeOK
<1>5. OnlyCreated' /\ WritersOverlap'
  BY <1>1, <1>2, <1>3, Calls DEF SessionInv, OnlyCreated, WritersOverlap, Live
<1>6. DeletedFirst'
  BY <1>1, <1>2, Calls DEF SessionInv, SessionTypeOK, DeletedFirst, Live, At
<1>7. IndexOutlives' /\ LiveIsTracked'
  BY <1>2 DEF SessionInv, IndexOutlives, LiveIsTracked, Live
<1>8. DeletedStaysDeleted'
  BY <1>2, <1>3 DEF SessionInv, SessionTypeOK, DeletedStaysDeleted, Live
<1>9. PassedAreExcused'
  <2> SUFFICES ASSUME NEW q \in Pods, NEW r \in Passed(call'[q]), ttl'[r] > 0
               PROVE  r \in excused'
    BY DEF PassedAreExcused, Passed, Live
  <2>1. q # p /\ r \in Passed(call[q])
    BY <1>1, Calls DEF Passed
  <2>2. r \in SessionIds
    BY <2>1, PassedType DEF SessionInv
  <2> QED BY <1>2, <2>1, <2>2 DEF SessionInv, PassedAreExcused, Live
<1> QED BY <1>4, <1>5, <1>6, <1>7, <1>8, <1>9 DEF SessionInv

\* A write back by update_session() or touch_session() is excused and was overlapped.
LEMMA ExtendInv ==
    ASSUME SessionInv, NEW p \in Pods, Extend(p) \/ KeepTtl(p)
    PROVE  SessionInv'
<1>1. At(p, "extend") /\ call[p] \in Extending
  BY CallsAt DEF Extend, KeepTtl, SessionInv
<1>2. call[p].id \in SessionIds /\ call[p].left \in 0..Longest
  BY <1>1, Calls
<1>3. CASE Extend(p)
  <2>1. Extended(call[p].left) \in 1..Longest
    BY <1>2, SessionAssumption DEF Extended
  <2> QED BY <1>1, <1>2, <1>3, <2>1, RewriteInv DEF Extend
<1>4. CASE KeepTtl(p) /\ call[p].left # 0
  <2>1. call[p].left \in 1..Longest
    BY <1>2, <1>4, SessionAssumption
  <2> QED BY <1>1, <1>2, <1>4, <2>1, RewriteInv DEF KeepTtl
<1>5. CASE KeepTtl(p) /\ call[p].left = 0
  BY <1>5, Calls, MoveInv DEF KeepTtl, Passed
<1> QED BY <1>3, <1>4, <1>5

\* What a call goes on with after a session it had to delete
LEMMA ReturnsType ==
    ASSUME NEW p \in Pods, call[p] \in Deleting
    PROVE  /\ Returns(p) \in Call \cup {NoCall} /\ Returns(p).do \in {"none", "each"}
           /\ Passed(Returns(p)) \subseteq Passed(call[p]) \cup {call[p].id}
<1> DEFINE c == [do |-> "each", all |-> call[p].all \ {call[p].id}, listed |-> call[p].listed]
<1>1. c \in DeletingAll
  BY Calls DEF DeletingAll
<1>2. c \in Call /\ c.do = "each"
  BY <1>1, Calls
<1>3. Passed(c) \subseteq Passed(call[p]) \cup {call[p].id} /\ Passed(NoCall) = {}
  BY Calls DEF Passed
<1> HIDE DEF c
<1> QED BY <1>2, <1>3, Calls DEF Returns, c

\* In the loop of delete_user_sessions() a session that could not be deleted is
\* passed.
LEMMA FailsInLoopInv ==
    ASSUME SessionInv, NEW p \in Pods, FailsInLoop(p)
    PROVE  SessionInv'
<1>1. call[p] \in Deleting /\ call[p].id \in SessionIds
  BY CallsAt, Calls DEF FailsInLoop, InLoop, SessionInv
<1>2. /\ excused' = excused \cup {call[p].id} /\ Goto(p, Returns(p))
      /\ UNCHANGED <<ttl, index, created, gone, overlapped>>
  BY DEF FailsInLoop
<1>3. /\ index' \in [ids : SUBSET SessionIds, left : 0..Forever]
      /\ excused' \subseteq SessionIds /\ \A s \in gone : Live(s) => s \in excused'
  BY <1>1, <1>2 DEF SessionInv, SessionTypeOK, DeletedFirst
<1>4. \A s \in SessionIds : Live(s) /\ s \notin excused' => s \in index'.ids /\ ttl[s] <= index'.left
  BY <1>2 DEF SessionInv, IndexOutlives, LiveIsTracked
<1>5. /\ \A s \in Passed(Returns(p)) : Live(s) => s \in excused'
      /\ \A q \in Pods : \A s \in Passed(call[q]) : Live(s) => s \in excused'
  BY <1>1, <1>2, ReturnsType DEF SessionInv, PassedAreExcused
<1>6. Returns(p) \in Call \cup {NoCall} /\ Returns(p).do \in {"none", "each"}
  BY <1>1, ReturnsType
<1> QED BY <1>2, <1>3, <1>4, <1>5, <1>6, IndexInv

\* delete_session() marks what calls in progress may undo.
LEMMA DeleteInv ==
    ASSUME SessionInv, NEW p \in Pods, Delete(p)
    PROVE  SessionInv'
<1> DEFINE s == call[p].id
           others == {q \in Pods \ {p} : call[q].do \in {"ttl", "extend"} /\ call[q].id = s}
           c == IF Live(s) /\ call[p].known THEN [call[p] EXCEPT !.do = "untrack"] ELSE Returns(p)
<1>1. s \in SessionIds /\ call[p] \in Deleting /\ call[p].do = "delete"
  BY CallsAt, Calls DEF Delete, SessionInv, At
<1>2. /\ c \in Call \cup {NoCall} /\ c.do \in {"none", "each", "untrack"}
      /\ c.do = "untrack" => Live(s) /\ c.id = s
      /\ Passed(c) \subseteq Passed(call[p]) \cup {s}
  BY <1>1, Calls, ReturnsType DEF Passed
<1>3. /\ ttl' = [ttl EXCEPT ![s] = 0]
      /\ gone' = IF Live(s) THEN gone \cup {s} ELSE gone
      /\ overlapped' = IF Live(s) /\ others # {} THEN overlapped \cup {s} ELSE overlapped
      /\ Goto(p, c) /\ UNCHANGED <<index, created, excused>>
  BY DEF Delete
<1> HIDE DEF c
<1>4. /\ call' \in [Pods -> Call \cup {NoCall}]
      /\ \A q \in Pods : call'[q] = IF q = p THEN c ELSE call[q]
  BY <1>2, <1>3, GotoStep DEF SessionInv
<1>5. \A r \in SessionIds : ttl'[r] = IF r = s THEN 0 ELSE ttl[r]
  BY <1>3 DEF SessionInv, SessionTypeOK
<1>6. SessionTypeOK'
  <2>1. 0 \in 0..Longest
    BY SessionAssumption
  <2>2. ttl' \in [SessionIds -> 0..Longest]
    BY <1>3, <2>1 DEF SessionInv, SessionTypeOK
  <2>3. gone' \subseteq SessionIds
    BY <1>1, <1>3 DEF SessionInv, SessionTypeOK
  <2>4. overlapped' \subseteq SessionIds
    BY <1>1, <1>3 DEF SessionInv, SessionTypeOK
  <2> QED BY <1>3, <1>4, <2>2, <2>3, <2>4 DEF SessionInv, SessionTypeOK
<1>7. OnlyCreated'
  BY <1>1, <1>2, <1>3, <1>4, <1>5 DEF SessionInv, SessionTypeOK, OnlyCreated, Live
<1>8. WritersOverlap'
  <2> SUFFICES ASSUME NEW q \in Pods, call'[q].do \in {"ttl", "extend"}, call'[q].id \in gone'
               PROVE  call'[q].id \in overlapped'
    BY DEF WritersOverlap
  <2>1. q # p /\ call'[q] = call[q]
    BY <1>2, <1>4
  <2>2. CASE call[q].id = s
    <3>1. q \in others
      BY <2>1, <2>2
    <3>2. CASE Live(s)
      BY <1>3, <2>1, <2>2, <3>1, <3>2
    <3>3. CASE ~Live(s)
      BY <1>3, <2>1, <3>3 DEF SessionInv, WritersOverlap
    <3> QED BY <3>2, <3>3
  <2>3. CASE call[q].id # s
    BY <1>3, <2>1, <2>3 DEF SessionInv, WritersOverlap
  <2> QED BY <2>2, <2>3
<1>9. DeletedFirst'
  <2>1. ASSUME NEW q \in Pods, call'[q].do = "untrack"
        PROVE  call'[q].id \in gone'
    BY <1>2, <1>3, <1>4, <2>1 DEF SessionInv, DeletedFirst, At
  <2>2. ASSUME NEW r \in gone', ttl'[r] > 0
        PROVE  r \in excused'
    <3>1. r \in SessionIds
      BY <1>6 DEF SessionTypeOK
    <3>2. r # s /\ Live(r)
      BY <1>1, <1>5, <2>2, <3>1 DEF Live
    <3> QED BY <1>3, <3>2 DEF SessionInv, DeletedFirst
  <2> QED BY <2>1, <2>2 DEF DeletedFirst, Live, At
<1>10. IndexOutlives' /\ LiveIsTracked'
  BY <1>3, <1>5 DEF SessionInv, IndexOutlives, LiveIsTracked, Live
<1>11. DeletedStaysDeleted'
  <2> SUFFICES ASSUME NEW r \in gone', ttl'[r] > 0
               PROVE  r \in overlapped'
    BY DEF DeletedStaysDeleted, Live
  <2>1. r \in SessionIds
    BY <1>6 DEF SessionTypeOK
  <2>2. r # s /\ Live(r)
    BY <1>1, <1>5, <2>1 DEF Live
  <2> QED BY <1>3, <2>2 DEF SessionInv, DeletedStaysDeleted
<1>12. PassedAreExcused'
  <2> SUFFICES ASSUME NEW q \in Pods, NEW r \in Passed(call'[q]), ttl'[r] > 0
               PROVE  r \in excused
    BY <1>3 DEF PassedAreExcused, Passed, Live
  <2>1. r \in Passed(call[q]) \cup {s}
    BY <1>2, <1>4
  <2>2. r \in SessionIds
    BY <1>1, <2>1, PassedType DEF SessionInv
  <2>3. r # s /\ Live(r)
    BY <1>5, <2>2 DEF Live
  <2> QED BY <2>1, <2>3 DEF SessionInv, PassedAreExcused
<1> QED BY <1>6, <1>7, <1>8, <1>9, <1>10, <1>11, <1>12 DEF SessionInv

\* hdel takes out of the index what has been deleted.
LEMMA UntrackInv ==
    ASSUME SessionInv, NEW p \in Pods, Untrack(p)
    PROVE  SessionInv'
<1> DEFINE s == call[p].id
           ids == index.ids \ {s}
           n == IF ids = {} THEN 0 ELSE index.left
<1>1. call[p] \in Deleting /\ s \in gone
  BY CallsAt DEF Untrack, SessionInv, DeletedFirst
<1>2. /\ index' = [ids |-> ids, left |-> n]
      /\ Goto(p, Returns(p)) /\ UNCHANGED <<ttl, created, gone, overlapped, excused>>
  BY DEF Untrack, Without
<1>3. index' \in [ids : SUBSET SessionIds, left : 0..Forever]
  <2>1. ids \in SUBSET SessionIds /\ n \in Nat /\ n <= Forever
    BY Times DEF SessionInv
  <2> HIDE DEF ids, n
  <2> QED BY <1>2, <2>1, IndexType
<1>4. ASSUME NEW r \in SessionIds, Live(r), r \notin excused'
      PROVE  r \in index'.ids /\ ttl[r] <= index'.left
  <2>1. r # s /\ r \in index.ids /\ ttl[r] <= index.left
    BY <1>1, <1>2, <1>4 DEF SessionInv, DeletedFirst, IndexOutlives, LiveIsTracked
  <2> QED BY <1>2, <2>1
<1>5. excused' \subseteq SessionIds /\ \A r \in gone : Live(r) => r \in excused'
  BY <1>2 DEF SessionInv, SessionTypeOK, DeletedFirst
<1>6. /\ \A r \in Passed(Returns(p)) : Live(r) => r \in excused'
      /\ \A q \in Pods : \A r \in Passed(call[q]) : Live(r) => r \in excused'
  BY <1>1, <1>2, ReturnsType DEF SessionInv, PassedAreExcused, DeletedFirst
<1> QED BY <1>1, <1>2, <1>3, <1>4, <1>5, <1>6, ReturnsType, IndexInv

\* What lives when the index is dropped was not listed, or has been passed.
LEMMA DropIndexInv ==
    ASSUME SessionInv, NEW p \in Pods, DropIndex(p)
    PROVE  SessionInv'
<1>1. /\ index' = [ids |-> {}, left |-> 0]
      /\ excused' = excused \cup {s \in SessionIds : Live(s) /\ s \notin call[p].listed}
      /\ Goto(p, NoCall) /\ UNCHANGED <<ttl, created, gone, overlapped>>
  BY DEF DropIndex
<1>2. index' \in [ids : SUBSET SessionIds, left : 0..Forever]
  BY <1>1, IndexType, Times DEF SessionInv
<1>3. excused' \subseteq SessionIds /\ \A s \in gone : Live(s) => s \in excused'
  BY <1>1 DEF SessionInv, SessionTypeOK, DeletedFirst
<1>4. Passed(call[p]) = call[p].listed
  BY DEF DropIndex, At, Passed
<1>5. \A s \in SessionIds : Live(s) => s \in excused'
  BY <1>1, <1>4 DEF SessionInv, PassedAreExcused
<1>6. Passed(NoCall) = {} /\ \A q \in Pods : \A s \in Passed(call[q]) : Live(s) => s \in excused'
  BY <1>1, Calls DEF Passed, SessionInv, PassedAreExcused
<1> QED BY <1>1, <1>2, <1>3, <1>5, <1>6, Calls, IndexInv

\* Time takes as much of the index as of the sessions.
LEMMA TickInv ==
    ASSUME SessionInv, Tick
    PROVE  SessionInv'
<1>1. /\ ttl' = [s \in SessionIds |-> IF Live(s) THEN ttl[s] - 1 ELSE 0]
      /\ index' = IF index.left <= 1 THEN [ids |-> {}, left |-> 0]
                  ELSE IF index.left = Forever THEN index
                  ELSE [index EXCEPT !.left = @ - 1]
      /\ UNCHANGED <<call, created, gone, overlapped, excused>>
  BY DEF Tick
<1>2. \A s \in SessionIds : ttl'[s] = IF Live(s) THEN ttl[s] - 1 ELSE 0
  BY <1>1
<1>3. ttl' \in [SessionIds -> 0..Longest]
  <2>1. \A s \in SessionIds : (IF Live(s) THEN ttl[s] - 1 ELSE 0) \in 0..Longest
    BY Times DEF SessionInv, Live
  <2> QED BY <1>1, <2>1
<1>4. \A s \in SessionIds : Live(s)' => Live(s) /\ ttl'[s] = ttl[s] - 1 /\ ttl[s] > 1
  BY <1>2, Times DEF SessionInv, Live
<1>5. /\ index' \in [ids : SUBSET SessionIds, left : 0..Forever]
      /\ index.left > 1 => /\ index'.ids = index.ids
                           /\ index'.left \in {index.left, index.left - 1}
  <2>1. CASE index.left <= 1
    BY <1>1, <2>1, IndexType, Times DEF SessionInv
  <2>2. CASE index.left > 1 /\ index.left # Forever
    <3>1. index' = [ids |-> index.ids, left |-> index.left - 1]
      BY <1>1, <2>2, Times DEF SessionInv, SessionTypeOK
    <3>2. index.left - 1 \in Nat /\ index.left - 1 <= Forever
      BY <2>2, Times DEF SessionInv
    <3> QED BY <3>1, <3>2, IndexType, Times DEF SessionInv
  <2>3. CASE index.left > 1 /\ index.left = Forever
    BY <1>1, <2>3, Times DEF SessionInv, SessionTypeOK
  <2> QED BY <2>1, <2>2, <2>3, Times DEF SessionInv
<1>6. SessionTypeOK'
  BY <1>1, <1>3, <1>5 DEF SessionInv, SessionTypeOK
<1>7. OnlyCreated' /\ WritersOverlap'
  BY <1>1, <1>4 DEF SessionInv, OnlyCreated, WritersOverlap
<1>8. DeletedFirst' /\ DeletedStaysDeleted'
  BY <1>1, <1>4 DEF SessionInv, SessionTypeOK, DeletedFirst, DeletedStaysDeleted, At
<1>9. IndexOutlives' /\ LiveIsTracked'
  <2> SUFFICES ASSUME NEW s \in SessionIds, Live(s)', s \notin excused
               PROVE  ttl'[s] <= index'.left /\ s \in index'.ids
    BY <1>1 DEF IndexOutlives, LiveIsTracked
  <2>1. ttl[s] <= index.left /\ s \in index.ids /\ ttl[s] > 1 /\ ttl'[s] = ttl[s] - 1
    BY <1>4 DEF SessionInv, IndexOutlives, LiveIsTracked
  <2> QED BY <1>5, <2>1, Times DEF SessionInv
<1>10. PassedAreExcused'
  <2> SUFFICES ASSUME NEW q \in Pods, NEW r \in Passed(call[q]), Live(r)'
               PROVE  r \in excused
    BY <1>1 DEF PassedAreExcused
  <2>1. r \in SessionIds
    BY PassedType DEF SessionInv
  <2> QED BY <1>4, <2>1 DEF SessionInv, PassedAreExcused
<1> QED BY <1>6, <1>7, <1>8, <1>9, <1>10 DEF SessionInv

\* No command of a call and no tick breaks the invariant.
LEMMA SessionNextInv == SessionInv /\ [SessionNext]_sessionVars => SessionInv'
<1> SUFFICES ASSUME SessionInv, [SessionNext]_sessionVars PROVE SessionInv'
  OBVIOUS
<1>1. CASE UNCHANGED sessionVars
  BY <1>1 DEF sessionVars, SessionInv, SessionTypeOK, OnlyCreated, WritersOverlap, DeletedFirst,
              IndexOutlives, PassedAreExcused, DeletedStaysDeleted, LiveIsTracked, Live, At
<1>2. ASSUME NEW p \in Pods, NEW s \in SessionIds, NEW t \in Lifetimes \cup {Default}, Create(p, s, t)
      PROVE  SessionInv'
  <2>1. t \in 1..Longest
    BY SessionAssumption
  <2> QED BY <1>2, <2>1, CreateInv
<1>3. ASSUME NEW p \in Pods, NEW s \in SessionIds, NEW first \in {"ttl", "extend"},
             StartExtend(p, s, first)
      PROVE  SessionInv'
  <2> DEFINE c == [do |-> first, id |-> s, left |-> 0]
  <2>1. c \in Call /\ c.do = first /\ c.id = s /\ Passed(c) = {}
    <3>1. c \in Extending
      BY SessionAssumption DEF Extending
    <3> QED BY <3>1, Calls DEF Passed
  <2>2. s \in created /\ (s \in gone => s \in overlapped)
    BY <1>3 DEF StartExtend, Found, SessionInv, OnlyCreated, DeletedStaysDeleted
  <2>3. Goto(p, c) /\ UNCHANGED <<ttl, index, created, gone, overlapped, excused>>
    BY <1>3 DEF StartExtend, Begins
  <2> HIDE DEF c
  <2> QED BY <2>1, <2>2, <2>3, MoveInv
<1>4. ASSUME NEW p \in Pods, AskTtl(p) PROVE SessionInv'
  <2> DEFINE c == [call[p] EXCEPT !.do = "extend", !.left = ttl[call[p].id]]
  <2>1. call[p] \in Extending /\ call[p].do = "ttl"
    BY <1>4, CallsAt DEF AskTtl, SessionInv, At
  <2>2. ttl[call[p].id] \in 0..Longest
    BY <2>1, Calls DEF SessionInv, SessionTypeOK
  <2>3. c \in Call /\ c.do = "extend" /\ c.id = call[p].id /\ Passed(c) = {}
    <3>1. c \in Extending /\ c.do = "extend" /\ c.id = call[p].id
      BY <2>1, <2>2 DEF Extending
    <3> QED BY <3>1, Calls DEF Passed
  <2>4. call[p].id \in created /\ (call[p].id \in gone => call[p].id \in overlapped)
    BY <2>1 DEF SessionInv, OnlyCreated, WritersOverlap
  <2>5. Goto(p, c) /\ UNCHANGED <<ttl, index, created, gone, overlapped, excused>>
    BY <1>4 DEF AskTtl
  <2> HIDE DEF c
  <2> QED BY <2>3, <2>4, <2>5, MoveInv
<1>5. ASSUME NEW p \in Pods, NEW s \in SessionIds, NEW known \in BOOLEAN, StartDelete(p, s, known)
      PROVE  SessionInv'
  <2> DEFINE c == [do |-> "delete", id |-> s, known |-> known, all |-> {}, listed |-> {}]
  <2>1. c \in Call /\ c.do = "delete" /\ Passed(c) = {}
    <3>1. c \in Deleting
      BY DEF Deleting
    <3>2. Passed(c) = {}
      BY DEF Passed
    <3> QED BY <3>1, <3>2, Calls
  <2> HIDE DEF c
  <2> QED BY <1>5, <2>1, MoveInv DEF StartDelete, Begins, c
<1>6. ASSUME NEW p \in Pods, StartDeleteAll(p) PROVE SessionInv'
  <2> DEFINE c == [do |-> "each", all |-> index.ids, listed |-> index.ids]
  <2>1. c \in Call /\ c.do = "each" /\ Passed(c) = {}
    <3>1. c \in DeletingAll
      BY Times DEF DeletingAll, SessionInv
    <3>2. Passed(c) = {}
      BY DEF Passed
    <3> QED BY <3>1, <3>2, Calls
  <2> HIDE DEF c
  <2> QED BY <1>6, <2>1, MoveInv DEF StartDeleteAll, Begins, c
<1>7. ASSUME NEW p \in Pods, NEW s \in SessionIds, NEW known \in BOOLEAN, DeleteNext(p, s, known)
      PROVE  SessionInv'
  <2> DEFINE c == [do |-> "delete", id |-> s, known |-> known,
                   all |-> call[p].all, listed |-> call[p].listed]
  <2>1. call[p].all \in SUBSET SessionIds /\ call[p].listed \in SUBSET SessionIds
    BY <1>7, CallsAt, Calls DEF DeleteNext, SessionInv
  <2>2. c \in Call /\ c.do = "delete"
    <3>1. c \in Deleting
      BY <2>1 DEF Deleting
    <3> QED BY <3>1, Calls
  <2>3. Passed(c) = Passed(call[p])
    BY <1>7 DEF DeleteNext, At, Passed
  <2>4. Goto(p, c) /\ UNCHANGED <<ttl, index, created, gone, overlapped, excused>>
    BY <1>7 DEF DeleteNext
  <2>5. \A r \in Passed(c) : Live(r) => r \in excused
    BY <2>3 DEF SessionInv, PassedAreExcused
  <2> HIDE DEF c
  <2> QED BY <2>2, <2>4, <2>5, MoveInv
<1>8. ASSUME NEW p \in Pods, Fails(p) PROVE SessionInv'
  <2>1. Passed(NoCall) = {}
    BY Calls DEF Passed
  <2> QED BY <1>8, <2>1, Calls, MoveInv DEF Fails
<1> QED BY <1>1, <1>2, <1>3, <1>4, <1>5, <1>6, <1>7, <1>8, TrackInv, ExpireIndexInv, ExtendInv,
           DeleteInv, UntrackInv, DropIndexInv, FailsInLoopInv, TickInv
        DEF SessionNext

-----------------------------------------------------------------------------
\* The inductive invariant of SessionStore holds in every state of it.
THEOREM SessionInvariance == SessionSpec => []SessionInv
  BY SessionInitInv, SessionNextInv, PTL DEF SessionSpec

\* The variables of SessionStore keep their types.
THEOREM SessionTypes == SessionSpec => []SessionTypeOK
  BY SessionInvariance, PTL DEF SessionInv

\* A session that delete_session() deleted comes back only through a call that
\* had read it before, for any number of processes.
THEOREM SessionDeletedStaysDeleted == SessionSpec => []DeletedStaysDeleted
  BY SessionInvariance, PTL DEF SessionInv

\* delete_user_sessions() finds every session that was created to the end and
\* not written back, whatever the lifetimes and whichever commands fail: only an
\* index made to expire before the session by a shorter one loses it, and the
\* log-out that could not delete it or did not list it.
THEOREM SessionLiveIsTracked == SessionSpec => []LiveIsTracked
  BY SessionInvariance, PTL DEF SessionInv
=============================================================================
