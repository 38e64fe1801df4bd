----------------------------- MODULE SessionStore ---------------------------
(***************************************************************************)
(* SessionManager of src/infrastructure/redis/caching_service.py for one   *)
(* user: a key per session and a hash that tracks the user's sessions.     *)
(* Every method is a series of Redis commands, each atomic, that processes *)
(* interleave; a command that raises ends the method, but get_session()    *)
(* and delete_session() swallow it and their callers go on.  A command     *)
(* that is executed and whose answer is lost is the command and then the   *)
(* failure of the next.  Time is counted in ticks.  gone, overlapped and   *)
(* excused are history.                                                    *)
(* The Faulty... operators are mistakes the properties must notice.        *)
(***************************************************************************)
EXTENDS Naturals, FiniteSets, Processes

CONSTANTS SessionIds, \* ids of sessions that may be created, each once
          Default,    \* default_ttl in ticks
          Lifetimes,  \* what callers ask for, shorter and longer ones
          Longest     \* bound of all of them

ASSUME SessionAssumption == /\ Longest \in Nat
                            /\ Default \in 1..Longest /\ Lifetimes \subseteq 1..Longest

VARIABLES
    ttl,        \* ttl[s]: what is left of the key of s, 0 if there is none
    index,      \* user_sessions: its fields and what is left of it
    call,       \* call[p]: the method p executes
    created,    \* ids given out
    gone,       \* history: sessions that delete_session() deleted
    overlapped, \* history: sessions deleted while another call had read them
    excused     \* history: sessions the index may lose

sessionVars == <<ttl, index, call, created, gone, overlapped, excused>>

NoCall == [do |-> "none"]
Call == [do : {"track", "expire"}, id : SessionIds, for : 1..Longest]
        \cup [do : {"ttl", "extend"}, id : SessionIds, left : 0..Longest]
        \cup [do : {"delete", "untrack"}, id : SessionIds, known : BOOLEAN,
              all : SUBSET SessionIds, listed : SUBSET SessionIds]
        \cup [do : {"each"}, all : SUBSET SessionIds, listed : SUBSET SessionIds]

Forever == 2 * Longest + 1   \* of a hash without expiry

SessionTypeOK == /\ ttl \in [SessionIds -> 0..Longest]
                 /\ index \in [ids : SUBSET SessionIds, left : 0..Forever]
                 /\ call \in [Pods -> Call \cup {NoCall}]
                 /\ created \subseteq SessionIds
                 /\ gone \subseteq SessionIds /\ overlapped \subseteq SessionIds
                 /\ excused \subseteq SessionIds

SessionInit == /\ ttl = [s \in SessionIds |-> 0]
               /\ index = [ids |-> {}, left |-> 0]
               /\ call = [p \in Pods |-> NoCall]
               /\ created = {} /\ gone = {} /\ overlapped = {} /\ excused = {}

-----------------------------------------------------------------------------
Live(s) == ttl[s] > 0
Goto(p, c) == call' = [call EXCEPT ![p] = c]
Begins(p, c) == call[p] = NoCall /\ Goto(p, c)
At(p, step) == call[p].do = step

\* create_session(): setex
Create(p, s, t) ==
    /\ s \notin created
    /\ Begins(p, [do |-> "track", id |-> s, for |-> t])
    /\ created' = created \cup {s}
    /\ ttl' = [ttl EXCEPT ![s] = t]
    /\ excused' = excused \cup {s}        \* until it is tracked
    /\ UNCHANGED <<index, gone, overlapped>>

\* hset; a hash that did not exist has no expiry yet
Track(p) ==
    /\ At(p, "track")
    /\ index' = [ids |-> index.ids \cup {call[p].id},
                 left |-> IF index.left = 0 THEN Forever ELSE index.left]
    /\ Goto(p, [call[p] EXCEPT !.do = "expire"])
    /\ UNCHANGED <<ttl, created, gone, overlapped, excused>>

\* s is in the hands of a delete_user_sessions().
Listed(s) == \E p \in Pods : call[p].do \in {"each", "delete", "untrack"} /\ s \in call[p].listed

\* expire: ttl * 2, also when that is less than what was left
ExpireIndex(p) ==
    /\ At(p, "expire")
    /\ LET s == call[p].id
           t == call[p].for
           found == s \in index.ids \ gone /\ ttl[s] <= 2 * t /\ ~Listed(s)
       IN  /\ index' = IF index.ids = {} THEN index ELSE [index EXCEPT !.left = 2 * t]
           /\ excused' = (excused \cup {r \in SessionIds : ttl[r] > 2 * t})
                            \ (IF found THEN {s} ELSE {})
    /\ Goto(p, NoCall)
    /\ UNCHANGED <<ttl, created, gone, overlapped>>

FaultyFound(s) == s \in created   \* does not look at the answer of get

\* get_session() found it
Found(s) == Live(s)

\* update_session() gets and asks for the ttl, touch_session() only gets.
StartExtend(p, s, first) ==
    /\ Found(s)
    /\ Begins(p, [do |-> first, id |-> s, left |-> 0])
    /\ UNCHANGED <<ttl, index, created, gone, overlapped, excused>>

AskTtl(p) ==
    /\ At(p, "ttl")
    /\ Goto(p, [call[p] EXCEPT !.do = "extend", !.left = ttl[call[p].id]])
    /\ UNCHANGED <<ttl, index, created, gone, overlapped, excused>>

\* setex with the longer of default_ttl and the ttl update_session() was told,
\* also when the key has gone in between; touch_session() asked for none, and may
\* shorten.  The index is not extended.
Extended(left) == IF left > Default THEN left ELSE Default
Extend(p) ==
    /\ At(p, "extend")
    /\ ttl' = [ttl EXCEPT ![call[p].id] = Extended(call[p].left)]
    /\ excused' = excused \cup {call[p].id}
    /\ Goto(p, NoCall)
    /\ UNCHANGED <<index, created, gone, overlapped>>

\* update_session(extend_ttl=False): with the ttl it was told, if there was one
KeepTtl(p) ==
    /\ At(p, "extend")
    /\ LET s == call[p].id
       IN  IF call[p].left = 0 THEN UNCHANGED <<ttl, excused>>
           ELSE /\ ttl' = [ttl EXCEPT ![s] = call[p].left]
                /\ excused' = excused \cup {s}
    /\ Goto(p, NoCall)
    /\ UNCHANGED <<index, created, gone, overlapped>>

\* delete_session(): get, of a session that may have gone; without an answer,
\* or when get_session() swallowed an error, it does not know whose it is
StartDelete(p, s, known) ==
    /\ s \in created
    /\ known => Found(s)
    /\ Begins(p, [do |-> "delete", id |-> s, known |-> known, all |-> {}, listed |-> {}])
    /\ UNCHANGED <<ttl, index, created, gone, overlapped, excused>>

InLoop(p) == (At(p, "delete") \/ At(p, "untrack")) /\ call[p].all # {}
Returns(p) == IF call[p].all = {} THEN NoCall
              ELSE [do |-> "each", all |-> call[p].all \ {call[p].id}, listed |-> call[p].listed]

\* delete: it may have expired, or somebody else has deleted it
Delete(p) ==
    /\ At(p, "delete")
    /\ LET s == call[p].id
           others == {q \in Pods \ {p} : call[q].do \in {"ttl", "extend"} /\ call[q].id = s}
       IN  /\ ttl' = [ttl EXCEPT ![s] = 0]
           /\ gone' = IF Live(s) THEN gone \cup {s} ELSE gone
           /\ overlapped' = IF Live(s) /\ others # {} THEN overlapped \cup {s} ELSE overlapped
           /\ Goto(p, IF Live(s) /\ call[p].known THEN [call[p] EXCEPT !.do = "untrack"]
                      ELSE Returns(p))
    /\ UNCHANGED <<index, created, excused>>

FaultyWithout(s) == {}   \* deletes the hash

Without(s) == index.ids \ {s}

\* hdel
Untrack(p) ==
    /\ At(p, "untrack")
    /\ index' = [ids |-> Without(call[p].id),
                 left |-> IF Without(call[p].id) = {} THEN 0 ELSE index.left]
    /\ Goto(p, Returns(p))
    /\ UNCHANGED <<ttl, created, gone, overlapped, excused>>

\* delete_user_sessions(): hgetall, delete_session() of each, delete
StartDeleteAll(p) ==
    /\ Begins(p, [do |-> "each", all |-> index.ids, listed |-> index.ids])
    /\ UNCHANGED <<ttl, index, created, gone, overlapped, excused>>

DeleteNext(p, s, known) ==
    /\ At(p, "each")
    /\ s \in call[p].all
    /\ known => Found(s)
    /\ Goto(p, [do |-> "delete", id |-> s, known |-> known,
                all |-> call[p].all, listed |-> call[p].listed])
    /\ UNCHANGED <<ttl, index, created, gone, overlapped, excused>>

DropIndex(p) ==
    /\ At(p, "each")
    /\ call[p].all = {}
    /\ index' = [ids |-> {}, left |-> 0]
    /\ excused' = excused \cup {s \in SessionIds : Live(s) /\ s \notin call[p].listed}
    /\ Goto(p, NoCall)
    /\ UNCHANGED <<ttl, created, gone, overlapped>>

\* A command raises, or the process dies: the call ends, and what it stored
\* stays ...
Fails(p) ==
    /\ call[p] # NoCall
    /\ Goto(p, NoCall)
    /\ UNCHANGED <<ttl, index, created, gone, overlapped, excused>>

\* ... except in the loop of delete_user_sessions(): delete_session() answers
\* False, the loop goes on and the index goes with the session still there.
FailsInLoop(p) ==
    /\ InLoop(p)
    /\ excused' = excused \cup {call[p].id}
    /\ Goto(p, Returns(p))
    /\ UNCHANGED <<ttl, index, created, gone, overlapped>>

Tick ==
    /\ ttl' = [s \in SessionIds |-> IF Live(s) THEN ttl[s] - 1 ELSE 0]
    /\ index' = IF index.left <= 1 THEN [ids |-> {}, left |-> 0]
                ELSE IF index.left = Forever THEN index
                ELSE [index EXCEPT !.left = @ - 1]
    /\ UNCHANGED <<call, created, gone, overlapped, excused>>

SessionNext == \/ \E p \in Pods :
                      \/ \E s \in SessionIds :
                             \/ \E t \in Lifetimes \cup {Default} : Create(p, s, t)
                             \/ \E first \in {"ttl", "extend"} : StartExtend(p, s, first)
                             \/ \E known \in BOOLEAN :
                                    StartDelete(p, s, known) \/ DeleteNext(p, s, known)
                      \/ Track(p) \/ ExpireIndex(p) \/ AskTtl(p) \/ Extend(p) \/ KeepTtl(p)
                      \/ Delete(p) \/ Untrack(p) \/ StartDeleteAll(p) \/ DropIndex(p)
                      \/ Fails(p) \/ FailsInLoop(p)
               \/ Tick

SessionSpec == SessionInit /\ [][SessionNext]_sessionVars

-----------------------------------------------------------------------------
(* Properties. *)

\* A session delete_session() has deleted stays away, unless an update or a
\* touch had read it before: that writes it back.
DeletedStaysDeleted == \A s \in gone : Live(s) => s \in overlapped

\* Logging a user out everywhere finds every session that was created to the
\* end and never written back, whatever its lifetime, unless the index was made
\* to expire before it by a shorter one, or a log-out that listed it could not
\* delete it, or one that did not list it took the index away.
LiveIsTracked == \A s \in SessionIds : Live(s) /\ s \notin excused => s \in index.ids
=============================================================================
