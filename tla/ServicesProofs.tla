---------------------------- MODULE ServicesProofs ----------------------------
(***************************************************************************)
(* The objects through which the threads of ti.posix.tirtos wait for each  *)
(* other, for any threads: the read-write lock keeps writers apart from    *)
(* everybody and wakes the readers it has blocked; the barrier loses no    *)
(* token; the condition variable misses no waiter.                         *)
(***************************************************************************)
EXTENDS PosixSync, QueueProofs

-----------------------------------------------------------------------------
(* The read-write lock.                                                    *)

\* The operators that Rwlock takes from the library are those used here.
LEMMA LockOperators ==
  /\ \A S : Rw!Cardinality(S) = Cardinality(S)
  /\ \A S : Rw!Min(S) = Min(S)
  /\ \A q, x : Rw!Contains(q, x) <=> Contains(q, x)
  BY DEF Rw!Cardinality, Cardinality, Rw!Min, Min, Rw!Contains, Contains

-----------------------------------------------------------------------------
(* The inductive invariant of the read-write lock.                         *)

\* Where a thread pends on a semaphore.
LockCaller(s) == IF s = "sem" THEN "wrPend" ELSE "rdPend"

Writers   == {t \in Users : Rw!Writing(t)}
Blocked   == {t \in Users : pPc[t] \in {"rdPend", "rdTry", "rdTimedOut"}}
Tokenless == {t \in Users : pPc[t] = "rdPend" /\ pOutcome[t] \in {"idle"} \cup Rw!Sem!Waits}

\* TypeOK, the counts as the numbers they are.
Typed ==
  /\ Rw!Sem!SpecTypeOK
  /\ activeReaderCnt \in Nat /\ blockedReaderCnt \in Nat
  /\ pPc \in [Users -> Rw!PCs]
  /\ limited \in SUBSET Users

\* A thread is on a waiting list, once, while the wait of its pend is open, and
\* nobody waits for a token that is there.
LockWaitersOK ==
  /\ \A s \in Rw!LockSems : IsInjective(pWaiting[s]) /\ (pWaiting[s] # <<>> => pAvail[s] = 0)
  /\ \A s \in Rw!LockSems, t \in Users :
       Contains(pWaiting[s], t) <=> pOutcome[t] \in Rw!Sem!Waits /\ pPc[t] = LockCaller(s)
  /\ \A t \in Users : pOutcome[t] # "idle" => pPc[t] \in {"wrPend", "rdPend"}

\* The token of sem is there, or one writer has it, or the readers have it.
LockOK ==
  /\ pAvail["sem"] = 0 \/ pAvail["sem"] = 1
  /\ pAvail["sem"] = 1 <=> Writers = {} /\ Rw!Readers = {}
  /\ Writers # {} => Rw!Readers = {}
  /\ \A t, u \in Writers : t = u

LockCountsOK ==
  /\ activeReaderCnt = Cardinality(Rw!Readers)
  /\ blockedReaderCnt = Cardinality(Blocked)

OwnerOK ==
  /\ lockOwner = {} \/ \E t \in Users : lockOwner = {t}
  /\ lockOwner # {} <=> Rw!Readers # {} \/ \E t \in Users : pPc[t] = "writing"

LockTokensOK == Writers # {} \/ Cardinality(Tokenless) <= pAvail["readSem"]

LockIInv == Typed /\ LockWaitersOK /\ LockOK /\ LockCountsOK /\ OwnerOK /\ LockTokensOK

-----------------------------------------------------------------------------
(* Types and counts.                                                       *)

LEMMA LockSemNames == "sem" \in Rw!LockSems /\ "readSem" \in Rw!LockSems /\ \A s \in Rw!LockSems : s = "sem" \/ s = "readSem"
  BY DEF Rw!LockSems

LEMMA LockSemTypes ==
  Rw!Sem!SpecTypeOK <=> /\ pAvail \in [Rw!LockSems -> 0 .. LockLimit - 1]
                     /\ pWaiting \in [Rw!LockSems -> Seq(Users)]
                     /\ pOutcome \in [Users -> Rw!Sem!Outcomes]
  BY DEF Rw!Sem!SpecTypeOK

LEMMA LockSemTypesNext ==
  Rw!Sem!SpecTypeOK' <=> /\ pAvail' \in [Rw!LockSems -> 0 .. LockLimit - 1]
                      /\ pWaiting' \in [Rw!LockSems -> Seq(Users)]
                      /\ pOutcome' \in [Users -> Rw!Sem!Outcomes]
  BY DEF Rw!Sem!SpecTypeOK

LEMMA LockTypes ==
  ASSUME Typed, LockAssumption
  PROVE  /\ pAvail \in [Rw!LockSems -> 0 .. LockLimit - 1]
         /\ \A s \in Rw!LockSems : pAvail[s] \in Nat /\ pAvail[s] < LockLimit
         /\ pWaiting \in [Rw!LockSems -> Seq(Users)] /\ \A s \in Rw!LockSems : pWaiting[s] \in Seq(Users)
         /\ pOutcome \in [Users -> Rw!Sem!Outcomes]
         /\ activeReaderCnt \in Nat /\ blockedReaderCnt \in Nat
         /\ pPc \in [Users -> Rw!PCs]
<1>1. pAvail \in [Rw!LockSems -> 0 .. LockLimit - 1] /\ LockLimit \in Nat
  BY LockSemTypes DEF Typed, LockAssumption
<1>2. \A s \in Rw!LockSems : pAvail[s] \in Nat /\ pAvail[s] < LockLimit
  BY <1>1
<1> QED BY <1>1, <1>2, LockSemTypes DEF Typed

LEMMA LockCounts ==
  ASSUME LockAssumption
  PROVE  /\ IsFiniteSet(Rw!Readers) /\ Cardinality(Rw!Readers) \in Nat
         /\ IsFiniteSet(Blocked) /\ Cardinality(Blocked) \in Nat
         /\ IsFiniteSet(Tokenless) /\ Cardinality(Tokenless) \in Nat
         /\ Cardinality(Rw!Readers) = 0 <=> Rw!Readers = {}
<1>1. Rw!Readers \in SUBSET Users /\ Blocked \in SUBSET Users /\ Tokenless \in SUBSET Users
  BY DEF Rw!Readers, Blocked, Tokenless
<1>2. IsFiniteSet(Rw!Readers) /\ IsFiniteSet(Blocked) /\ IsFiniteSet(Tokenless)
  BY <1>1, FS_Subset DEF LockAssumption
<1> QED BY <1>2, FS_CardinalityType, FS_EmptySet

LEMMA CountsNext ==
  ASSUME LockAssumption
  PROVE  /\ IsFiniteSet(Rw!Readers') /\ Cardinality(Rw!Readers') \in Nat
         /\ IsFiniteSet(Blocked') /\ Cardinality(Blocked') \in Nat
         /\ IsFiniteSet(Tokenless') /\ Cardinality(Tokenless') \in Nat
<1>1. Rw!Readers' \in SUBSET Users /\ Blocked' \in SUBSET Users /\ Tokenless' \in SUBSET Users
  BY DEF Rw!Readers, Blocked, Tokenless
<1>2. IsFiniteSet(Rw!Readers') /\ IsFiniteSet(Blocked') /\ IsFiniteSet(Tokenless')
  BY <1>1, FS_Subset DEF LockAssumption
<1> QED BY <1>2, FS_CardinalityType

\* One element comes into a set or goes out of it, or neither.
LEMMA Resized ==
  ASSUME NEW S, IsFiniteSet(S), NEW T, NEW t, T \ {t} = S \ {t}
  PROVE  /\ t \in S /\ t \in T => T = S
         /\ t \notin S /\ t \notin T => T = S
         /\ t \in S /\ t \notin T => T = S \ {t} /\ Cardinality(T) = Cardinality(S) - 1
         /\ t \notin S /\ t \in T => T = S \cup {t} /\ Cardinality(T) = Cardinality(S) + 1
<1>1. t \in S => Cardinality(S \ {t}) = Cardinality(S) - 1
  BY FS_RemoveElement
<1>2. t \notin S => Cardinality(S \cup {t}) = Cardinality(S) + 1
  BY FS_AddElement
<1>3. /\ t \in S /\ t \in T => T = S
      /\ t \notin S /\ t \notin T => T = S
  OBVIOUS
<1>4. t \in S /\ t \notin T => T = S \ {t}
  OBVIOUS
<1>5. t \notin S /\ t \in T => T = S \cup {t}
  OBVIOUS
<1> QED BY <1>1, <1>2, <1>3, <1>4, <1>5

\* A step that one thread takes changes its own membership only.
LEMMA LockApart ==
  ASSUME NEW t \in Users,
         \A u \in Users : u # t => pPc'[u] = pPc[u] /\ pOutcome'[u] = pOutcome[u]
  PROVE  /\ Writers' \ {t} = Writers \ {t}
         /\ Rw!Readers' \ {t} = Rw!Readers \ {t}
         /\ Blocked' \ {t} = Blocked \ {t}
         /\ Tokenless' \ {t} = Tokenless \ {t}
<1>1. ASSUME NEW u \in Users, u # t
      PROVE  /\ u \in Writers' <=> u \in Writers
             /\ u \in Rw!Readers' <=> u \in Rw!Readers
             /\ u \in Blocked' <=> u \in Blocked
             /\ u \in Tokenless' <=> u \in Tokenless
  <2>1. pPc'[u] = pPc[u] /\ pOutcome'[u] = pOutcome[u]
    BY <1>1
  <2> QED BY <2>1 DEF Writers, Rw!Writing, Rw!Readers, Blocked, Tokenless
<1>2. /\ Writers \in SUBSET Users /\ Writers' \in SUBSET Users
      /\ Rw!Readers \in SUBSET Users /\ Rw!Readers' \in SUBSET Users
      /\ Blocked \in SUBSET Users /\ Blocked' \in SUBSET Users
      /\ Tokenless \in SUBSET Users /\ Tokenless' \in SUBSET Users
  BY DEF Writers, Rw!Readers, Blocked, Tokenless
<1> QED BY <1>1, <1>2

\* A thread that does not pend has no wait of its own open.
LEMMA LockIdleElsewhere ==
  ASSUME LockWaitersOK, NEW t \in Users, pPc[t] \notin {"wrPend", "rdPend"}
  PROVE  pOutcome[t] = "idle"
  BY DEF LockWaitersOK

-----------------------------------------------------------------------------
(* What a call of the semaphores does.                                     *)

\* A thread that has no wait open goes on, with or without a token.
LEMMA LockGoes ==
  ASSUME Typed, LockWaitersOK, LockAssumption,
         NEW t \in Users, NEW k \in Rw!PCs, pPc' = [pPc EXCEPT ![t] = k], pOutcome[t] = "idle",
         UNCHANGED <<pWaiting, pOutcome>>, \A s \in Rw!LockSems : pWaiting[s] # <<>> => pAvail'[s] = 0
  PROVE  LockWaitersOK'
<1>1. /\ pPc' \in [Users -> Rw!PCs] /\ pPc'[t] = k
      /\ \A u \in Users : u # t => pPc'[u] = pPc[u]
  BY LockTypes
<1>2. pOutcome[t] \notin Rw!Sem!Waits
  BY DEF Rw!Sem!Waits
<1>3. \A s \in Rw!LockSems, u \in Users : Contains(pWaiting'[s], u) <=> pOutcome'[u] \in Rw!Sem!Waits /\ pPc'[u] = LockCaller(s)
  BY <1>1, <1>2 DEF LockWaitersOK
<1> QED BY <1>1, <1>3 DEF LockWaitersOK

LEMMA LockTakes ==
  ASSUME Typed, LockWaitersOK, LockAssumption, NEW s \in Rw!LockSems, Rw!Sem!Take(s)
  PROVE  /\ pAvail' \in [Rw!LockSems -> 0 .. LockLimit - 1]
         /\ pAvail[s] > 0 /\ pAvail'[s] = pAvail[s] - 1
         /\ \A r \in Rw!LockSems : r # s => pAvail'[r] = pAvail[r]
         /\ UNCHANGED <<pWaiting, pOutcome>>
         /\ \A r \in Rw!LockSems : pWaiting[r] # <<>> => pAvail'[r] = 0
<1>1. pAvail[s] > 0 /\ pAvail' = [pAvail EXCEPT ![s] = @ - 1] /\ UNCHANGED <<pWaiting, pOutcome>>
  BY DEF Rw!Sem!Take
<1>2. pAvail[s] - 1 \in 0 .. LockLimit - 1
  BY <1>1, LockTypes DEF LockAssumption
<1>3. /\ pAvail' \in [Rw!LockSems -> 0 .. LockLimit - 1] /\ pAvail'[s] = pAvail[s] - 1
      /\ \A r \in Rw!LockSems : r # s => pAvail'[r] = pAvail[r]
  BY <1>1, <1>2, LockTypes
<1>4. pWaiting[s] = <<>>
  BY <1>1 DEF LockWaitersOK
<1> QED BY <1>1, <1>3, <1>4 DEF LockWaitersOK

LEMMA LockReturns ==
  ASSUME Typed, LockWaitersOK, LockAssumption,
         NEW t \in Users, NEW k \in Rw!PCs, pPc' = [pPc EXCEPT ![t] = k], Rw!Sem!Return(t)
  PROVE  /\ Rw!Sem!SpecTypeOK' /\ LockWaitersOK'
         /\ pAvail' = pAvail
         /\ pOutcome[t] \in {"granted", "timedout"} /\ pOutcome'[t] = "idle"
         /\ \A u \in Users : u # t => pOutcome'[u] = pOutcome[u]
<1>1. /\ pOutcome[t] \in {"granted", "timedout"} /\ pOutcome' = [pOutcome EXCEPT ![t] = "idle"]
      /\ UNCHANGED <<pAvail, pWaiting>>
  BY DEF Rw!Sem!Return
<1>2. /\ pOutcome'[t] = "idle" /\ (\A u \in Users : u # t => pOutcome'[u] = pOutcome[u])
      /\ pOutcome' \in [Users -> Rw!Sem!Outcomes]
  BY <1>1, LockTypes DEF Rw!Sem!Outcomes
<1>3. pPc'[t] = k /\ \A u \in Users : u # t => pPc'[u] = pPc[u]
  BY LockTypes
<1>4. Rw!Sem!SpecTypeOK'
  BY <1>1, <1>2, LockTypes, LockSemTypesNext
<1>5. pOutcome[t] \notin Rw!Sem!Waits /\ pOutcome'[t] \notin Rw!Sem!Waits
  BY <1>1, <1>2 DEF Rw!Sem!Waits
<1>6. \A s \in Rw!LockSems, u \in Users : Contains(pWaiting'[s], u) <=> pOutcome'[u] \in Rw!Sem!Waits /\ pPc'[u] = LockCaller(s)
  BY <1>1, <1>2, <1>3, <1>5 DEF LockWaitersOK
<1>7. LockWaitersOK'
  BY <1>1, <1>2, <1>3, <1>6 DEF LockWaitersOK
<1> QED BY <1>1, <1>2, <1>4, <1>7

LEMMA LockWaits ==
  ASSUME Typed, LockWaitersOK, LockAssumption,
         NEW t \in Users, NEW s \in Rw!LockSems, pPc[t] = LockCaller(s), pPc' = pPc, Rw!PendWait(t, s)
  PROVE  /\ Rw!Sem!SpecTypeOK' /\ LockWaitersOK'
         /\ pAvail' = pAvail
         /\ pOutcome[t] = "idle" /\ pOutcome'[t] \in Rw!Sem!Waits
         /\ \A u \in Users : u # t => pOutcome'[u] = pOutcome[u]
<1> DEFINE how == IF t \in limited THEN "timed" ELSE "forever"
           w == pWaiting[s]
           z == Append(w, t)
<1>1. how \in Rw!Sem!Waits
  BY DEF Rw!Sem!Waits
<1>2. Rw!Sem!Wait(t, s, how)
  BY DEF Rw!PendWait
<1> HIDE DEF how
<1>3. /\ pAvail' = pAvail /\ pAvail[s] = 0 /\ pOutcome[t] = "idle"
      /\ pOutcome' = [pOutcome EXCEPT ![t] = how]
  BY <1>2 DEF Rw!Sem!Wait
<1>4. w \in Seq(Users) /\ IsInjective(w) /\ ~Contains(w, t)
  <2>1. pOutcome[t] \notin Rw!Sem!Waits
    BY <1>3 DEF Rw!Sem!Waits
  <2> QED BY <2>1, LockTypes DEF LockWaitersOK
<1>5. pWaiting' = [pWaiting EXCEPT ![s] = z]
  <2>1. PICK i \in 1 .. Len(w) + 1 :
          /\ i <= Len(w) => "priority" \in [r \in Rw!LockSems |-> {}][s]
          /\ pWaiting' = [pWaiting EXCEPT ![s] = Rw!Sem!InsertAt(@, i, t)]
    BY <1>2 DEF Rw!Sem!Wait
  <2>2. i = Len(w) + 1
    BY <1>4, <2>1
  <2>3. Rw!Sem!InsertAt(w, Len(w) + 1, t) = InsertAt(w, Len(w) + 1, t)
    BY DEF Rw!Sem!InsertAt, InsertAt
  <2>4. InsertAt(w, Len(w) + 1, t) = Append(w, t)
    <3> HIDE DEF w
    <3> QED BY <1>4, PutLast
  <2> QED BY <2>1, <2>2, <2>3, <2>4
<1>6. z \in Seq(Users) /\ IsInjective(z) /\ \A u : Contains(z, u) <=> Contains(w, u) \/ u = t
  BY <1>4, Appended
<1> HIDE DEF z
<1>7. /\ pWaiting'[s] = z /\ (\A r \in Rw!LockSems : r # s => pWaiting'[r] = pWaiting[r])
      /\ pWaiting' \in [Rw!LockSems -> Seq(Users)]
  BY <1>5, <1>6, LockTypes
<1>8. pOutcome'[t] = how /\ (\A u \in Users : u # t => pOutcome'[u] = pOutcome[u])
      /\ pOutcome' \in [Users -> Rw!Sem!Outcomes]
  BY <1>1, <1>3, LockTypes DEF Rw!Sem!Outcomes, Rw!Sem!Waits
<1>9. Rw!Sem!SpecTypeOK'
  BY <1>3, <1>7, <1>8, LockTypes, LockSemTypesNext
<1>10. LockWaitersOK'
  <2>1. \A r \in Rw!LockSems : IsInjective(pWaiting'[r]) /\ (pWaiting'[r] # <<>> => pAvail'[r] = 0)
    BY <1>3, <1>6, <1>7 DEF LockWaitersOK
  <2>2. ASSUME NEW r \in Rw!LockSems, NEW u \in Users
        PROVE  Contains(pWaiting'[r], u) <=> pOutcome'[u] \in Rw!Sem!Waits /\ pPc'[u] = LockCaller(r)
    <3>1. CASE u = t /\ r = s
      BY <3>1, <1>1, <1>6, <1>7, <1>8
    <3>2. CASE u = t /\ r # s
      <4>1. LockCaller(r) # LockCaller(s)
        BY <3>2, LockSemNames DEF LockCaller
      <4>2. ~Contains(pWaiting[r], u)
        BY <4>1, <3>2 DEF LockWaitersOK
      <4> QED BY <4>1, <4>2, <3>2, <1>7
    <3>3. CASE u # t
      BY <3>3, <1>6, <1>7, <1>8 DEF LockWaitersOK
    <3> QED BY <3>1, <3>2, <3>3
  <2>3. pPc[t] \in {"wrPend", "rdPend"}
    BY DEF LockCaller
  <2>4. \A u \in Users : pOutcome'[u] # "idle" => pPc'[u] \in {"wrPend", "rdPend"}
    BY <2>3, <1>8 DEF LockWaitersOK
  <2> QED BY <2>1, <2>2, <2>4 DEF LockWaitersOK
<1> QED BY <1>1, <1>3, <1>8, <1>9, <1>10

\* The Clock Swi takes a thread off the list it is on.
LEMMA LockTimesOut ==
  ASSUME Typed, LockWaitersOK, LockAssumption, NEW t \in Users, pPc' = pPc, Rw!Sem!TimeOut(t)
  PROVE  /\ Rw!Sem!SpecTypeOK' /\ LockWaitersOK'
         /\ pAvail' = pAvail
         /\ pOutcome[t] = "timed" /\ pOutcome'[t] = "timedout"
         /\ \A u \in Users : u # t => pOutcome'[u] = pOutcome[u]
<1>1. /\ pAvail' = pAvail /\ pOutcome[t] = "timed"
      /\ pOutcome' = [pOutcome EXCEPT ![t] = "timedout"]
      /\ pWaiting' = [r \in Rw!LockSems |-> Rw!Sem!RemoveFirst(pWaiting[r], t)]
  BY DEF Rw!Sem!TimeOut, Rw!Sem!Without
<1>2. pOutcome'[t] = "timedout" /\ (\A u \in Users : u # t => pOutcome'[u] = pOutcome[u])
      /\ pOutcome' \in [Users -> Rw!Sem!Outcomes]
  BY <1>1, LockTypes DEF Rw!Sem!Outcomes
<1>3. ASSUME NEW r \in Rw!LockSems
      PROVE  /\ pWaiting'[r] \in Seq(Users) /\ IsInjective(pWaiting'[r])
             /\ \A u : Contains(pWaiting'[r], u) <=> Contains(pWaiting[r], u) /\ u # t
             /\ pWaiting'[r] # <<>> => pWaiting[r] # <<>>
  <2> DEFINE w == pWaiting[r]
  <2>1. w \in Seq(Users) /\ IsInjective(w)
    BY LockTypes DEF LockWaitersOK
  <2>2. pWaiting'[r] = Rw!Sem!RemoveFirst(w, t)
    BY <1>1
  <2> HIDE DEF w
  <2>3. Rw!Sem!RemoveFirst(w, t) = RemoveFirst(w, t)
    BY DEF Rw!Sem!RemoveFirst, Rw!Sem!SelectInSeq, Rw!Sem!RemoveAt, Rw!Sem!Min, RemoveFirst, SelectInSeq, RemoveAt, Min
  <2>4. /\ RemoveFirst(w, t) \in Seq(Users) /\ IsInjective(RemoveFirst(w, t))
        /\ \A u : Contains(RemoveFirst(w, t), u) <=> Contains(w, u) /\ u # t
        /\ RemoveFirst(w, t) # <<>> => w # <<>>
    BY <2>1, TakenOut
  <2> QED BY <2>2, <2>3, <2>4 DEF w
<1>4. pWaiting' \in [Rw!LockSems -> Seq(Users)]
  BY <1>1, <1>3
<1>5. Rw!Sem!SpecTypeOK'
  BY <1>1, <1>2, <1>4, LockTypes, LockSemTypesNext
<1>6. LockWaitersOK'
  <2>1. \A r \in Rw!LockSems : IsInjective(pWaiting'[r]) /\ (pWaiting'[r] # <<>> => pAvail'[r] = 0)
    BY <1>1, <1>3 DEF LockWaitersOK
  <2>2. pOutcome'[t] \notin Rw!Sem!Waits /\ pOutcome[t] # "idle"
    BY <1>1, <1>2 DEF Rw!Sem!Waits
  <2>3. \A r \in Rw!LockSems, u \in Users : Contains(pWaiting'[r], u) <=> pOutcome'[u] \in Rw!Sem!Waits /\ pPc'[u] = LockCaller(r)
    BY <2>2, <1>2, <1>3 DEF LockWaitersOK
  <2>4. \A u \in Users : pOutcome'[u] # "idle" => pPc'[u] \in {"wrPend", "rdPend"}
    BY <2>2, <1>2 DEF LockWaitersOK
  <2> QED BY <2>1, <2>3, <2>4 DEF LockWaitersOK
<1> QED BY <1>1, <1>2, <1>5, <1>6

\* The last reader posts sem: its token is there, or the first writer has it.
LEMMA LastPosts ==
  ASSUME Typed, LockWaitersOK, LockAssumption,
         NEW t \in Users, pPc[t] = "reading", pPc' = [pPc EXCEPT ![t] = "user"],
         pAvail["sem"] = 0, Rw!Sem!Post("sem")
  PROVE  /\ Rw!Sem!SpecTypeOK' /\ LockWaitersOK'
         /\ pAvail'["readSem"] = pAvail["readSem"]
         /\ \/ pAvail'["sem"] = 1 /\ pOutcome' = pOutcome
            \/ /\ pAvail'["sem"] = 0
               /\ \E u \in Users : /\ u # t /\ pPc[u] = "wrPend" /\ pOutcome'[u] = "granted"
                                   /\ \A v \in Users : v # u => pOutcome'[v] = pOutcome[v]
<1> DEFINE w == pWaiting["sem"]
<1>1. w \in Seq(Users) /\ IsInjective(w)
  BY LockTypes, LockSemNames DEF LockWaitersOK
<1>2. /\ pPc'[t] = "user" /\ (\A u \in Users : u # t => pPc'[u] = pPc[u])
      /\ pOutcome[t] = "idle" /\ pOutcome[t] \notin Rw!Sem!Waits
  BY LockTypes, LockIdleElsewhere DEF Rw!Sem!Waits
<1>3. CASE w = <<>>
  <2>1. pAvail' = [pAvail EXCEPT !["sem"] = 1] /\ UNCHANGED <<pWaiting, pOutcome>>
    <3>1. "binary" \notin [s \in Rw!LockSems |-> {}]["sem"]
      BY LockSemNames
    <3>2. (pAvail["sem"] + 1) % LockLimit = 1
      BY DEF LockAssumption
    <3> QED BY <3>1, <3>2, <1>3 DEF Rw!Sem!Post
  <2>2. pAvail' \in [Rw!LockSems -> 0 .. LockLimit - 1] /\ pAvail'["sem"] = 1 /\ pAvail'["readSem"] = pAvail["readSem"]
    BY <2>1, LockTypes, LockSemNames DEF LockAssumption
  <2>3. \A s \in Rw!LockSems : pWaiting[s] # <<>> => pAvail'[s] = 0
    BY <2>2, <1>3, LockSemNames DEF LockWaitersOK
  <2>4. LockWaitersOK'
    <3>1. "user" \in Rw!PCs
      BY DEF Rw!PCs
    <3> QED BY <3>1, <2>1, <2>3, <1>2, LockGoes
  <2> QED BY <2>1, <2>2, <2>4, LockTypes, LockSemTypesNext
<1>4. CASE w # <<>>
  <2>1. PICK u \in Users, z \in Seq(Users) :
          /\ u = Head(w) /\ z = Tail(w) /\ IsInjective(z) /\ ~Contains(z, u) /\ Contains(w, u)
          /\ \A y : Contains(w, y) <=> Contains(z, y) \/ y = u
    <3> HIDE DEF w
    <3> QED BY <1>1, <1>4, Beheaded
  <2>2. /\ pAvail' = pAvail /\ pWaiting' = [pWaiting EXCEPT !["sem"] = z]
        /\ pOutcome' = [pOutcome EXCEPT ![u] = "granted"]
    BY <2>1, <1>4 DEF Rw!Sem!Post
  <2>3. pOutcome[u] \in Rw!Sem!Waits /\ pPc[u] = "wrPend" /\ u # t
    BY <2>1, <1>2, LockSemNames DEF LockWaitersOK, LockCaller
  <2>4. pOutcome'[u] = "granted" /\ (\A v \in Users : v # u => pOutcome'[v] = pOutcome[v])
        /\ pOutcome' \in [Users -> Rw!Sem!Outcomes]
    BY <2>2, LockTypes DEF Rw!Sem!Outcomes
  <2>5. /\ pWaiting' \in [Rw!LockSems -> Seq(Users)] /\ pWaiting'["sem"] = z
        /\ pWaiting'["readSem"] = pWaiting["readSem"]
    BY <2>2, LockTypes, LockSemNames
  <2>6. Rw!Sem!SpecTypeOK'
    BY <2>2, <2>4, <2>5, LockTypes, LockSemTypesNext
  <2>7. LockWaitersOK'
    <3>1. \A s \in Rw!LockSems : IsInjective(pWaiting'[s]) /\ (pWaiting'[s] # <<>> => pAvail'[s] = 0)
      BY <2>1, <2>2, <2>5, LockSemNames DEF LockWaitersOK
    <3>2. ASSUME NEW v \in Users, v # u, NEW s \in Rw!LockSems
          PROVE  Contains(pWaiting'[s], v) <=> pOutcome'[v] \in Rw!Sem!Waits /\ pPc'[v] = LockCaller(s)
      <4>1. Contains(pWaiting'[s], v) <=> Contains(pWaiting[s], v)
        BY <3>2, <2>1, <2>5, LockSemNames
      <4>2. pOutcome'[v] = pOutcome[v] /\ (v # t => pPc'[v] = pPc[v])
        BY <3>2, <2>4, <1>2
      <4> QED BY <4>1, <4>2, <1>2 DEF LockWaitersOK
    <3>3. pOutcome'[u] \notin Rw!Sem!Waits
      BY <2>4 DEF Rw!Sem!Waits
    <3>4. ASSUME NEW s \in Rw!LockSems PROVE ~Contains(pWaiting'[s], u)
      <4>1. CASE s = "sem"
        BY <4>1, <2>1, <2>5
      <4>2. CASE s = "readSem"
        <5>1. LockCaller("readSem") # "wrPend"
          BY DEF LockCaller
        <5>2. ~Contains(pWaiting["readSem"], u)
          BY <5>1, <2>3, LockSemNames DEF LockWaitersOK
        <5> QED BY <5>2, <4>2, <2>5
      <4> QED BY <4>1, <4>2, LockSemNames
    <3>5. ASSUME NEW v \in Users, pOutcome'[v] # "idle" PROVE pPc'[v] \in {"wrPend", "rdPend"}
      <4>1. v # t
        BY <3>5, <2>3, <2>4, <1>2
      <4> QED BY <4>1, <3>5, <2>3, <2>4, <1>2 DEF LockWaitersOK
    <3> QED BY <3>1, <3>2, <3>3, <3>4, <3>5 DEF LockWaitersOK
  <2> QED BY <2>2, <2>3, <2>4, <2>6, <2>7
<1> QED BY <1>3, <1>4

\* Those that n[s] tokens of s are handed to.
Fed(s, n) == {u \in Users : Contains(Rw!Handed(s, n), u)}

LEMMA OneList ==
  ASSUME Typed, LockWaitersOK, LockAssumption, NEW n \in [Rw!LockSems -> Nat], NEW s \in Rw!LockSems
  PROVE  LET h == Rw!Handed(s, n)
             r == SubSeq(pWaiting[s], Len(h) + 1, Len(pWaiting[s]))
         IN  /\ Len(h) \in 0 .. n[s] /\ Cardinality(Fed(s, n)) = Len(h)
             /\ r \in Seq(Users) /\ IsInjective(r)
             /\ \A u : Contains(pWaiting[s], u) <=> Contains(h, u) \/ Contains(r, u)
             /\ \A u : ~(Contains(h, u) /\ Contains(r, u))
             /\ IsFiniteSet(Fed(s, n))
             /\ r # <<>> => Len(h) = n[s] /\ pWaiting[s] # <<>>
             /\ Len(h) < n[s] => r = <<>>
<1> DEFINE w == pWaiting[s]
           k == Min({n[s], Len(w)})
           h == SubSeq(w, 1, k)
           r == SubSeq(w, k + 1, Len(w))
<1>1. w \in Seq(Users) /\ IsInjective(w) /\ Len(w) \in Nat /\ n[s] \in Nat
  BY LockTypes DEF LockWaitersOK
<1>2. k \in 0 .. Len(w) /\ k <= n[s] /\ (k = n[s] \/ k = Len(w))
  BY <1>1, MinOfTwo
<1> HIDE DEF k, w
<1>3. /\ Len(h) = k
      /\ r \in Seq(Users) /\ Len(r) = Len(w) - k /\ IsInjective(r)
      /\ \A u : Contains(w, u) <=> Contains(h, u) \/ Contains(r, u)
      /\ \A u : ~(Contains(h, u) /\ Contains(r, u))
      /\ IsFiniteSet({u \in Users : Contains(h, u)})
      /\ Cardinality({u \in Users : Contains(h, u)}) = k
  BY <1>1, <1>2, Parted, ZenonT(30)
<1>4. Rw!Handed(s, n) = h
  BY LockOperators DEF Rw!Handed, k, w
<1> HIDE DEF h
<1>5. r # <<>> => Len(r) # 0
  BY <1>3
<1>6. Len(r) = 0 => r = <<>>
  BY <1>3
<1> HIDE DEF r
<1>7. r # <<>> => k = n[s] /\ w # <<>>
  <2>1. w = <<>> => Len(w) = 0
    OBVIOUS
  <2> QED BY <2>1, <1>1, <1>2, <1>3, <1>5
<1>8. k < n[s] => r = <<>>
  BY <1>1, <1>2, <1>3, <1>6
<1>9. k \in 0 .. n[s]
  BY <1>1, <1>2
<1>10. r = SubSeq(pWaiting[s], Len(Rw!Handed(s, n)) + 1, Len(pWaiting[s]))
  BY <1>3, <1>4 DEF r, w
<1>11. Fed(s, n) = {u \in Users : Contains(h, u)}
  BY <1>4 DEF Fed
<1> QED BY <1>3, <1>4, <1>7, <1>8, <1>9, <1>10, <1>11 DEF w

\* A writer posts both semaphores, and goes.
LEMMA EachPosts ==
  ASSUME Typed, LockWaitersOK, LockAssumption,
         NEW t \in Users, pPc[t] = "writing", pPc' = [pPc EXCEPT ![t] = "user"],
         NEW n \in [Rw!LockSems -> Nat], Rw!PostEach(n)
  PROVE  /\ Rw!Sem!SpecTypeOK' /\ LockWaitersOK'
         /\ \A s \in Rw!LockSems : /\ Cardinality(Fed(s, n)) \in 0 .. n[s] /\ IsFiniteSet(Fed(s, n))
                            /\ pAvail'[s] = pAvail[s] + n[s] - Cardinality(Fed(s, n))
                            /\ \A u \in Fed(s, n) : pOutcome[u] \in Rw!Sem!Waits /\ pPc[u] = LockCaller(s)
         /\ \A u \in Users : pOutcome'[u] = IF u \in Fed("sem", n) \cup Fed("readSem", n)
                                            THEN "granted" ELSE pOutcome[u]
<1> DEFINE rest(s) == SubSeq(pWaiting[s], Len(Rw!Handed(s, n)) + 1, Len(pWaiting[s]))
<1>1. /\ pAvail' = [s \in Rw!LockSems |-> pAvail[s] + n[s] - Len(Rw!Handed(s, n))]
      /\ \A s \in Rw!LockSems : pAvail'[s] < LockLimit
      /\ pWaiting' = [s \in Rw!LockSems |-> rest(s)]
      /\ pOutcome' = [u \in Users |-> IF \E s \in Rw!LockSems : Contains(Rw!Handed(s, n), u)
                                      THEN "granted" ELSE pOutcome[u]]
  BY LockOperators DEF Rw!PostEach
<1>2. ASSUME NEW s \in Rw!LockSems
      PROVE  /\ Len(Rw!Handed(s, n)) \in 0 .. n[s] /\ Cardinality(Fed(s, n)) = Len(Rw!Handed(s, n))
             /\ rest(s) \in Seq(Users) /\ IsInjective(rest(s))
             /\ \A u : Contains(pWaiting[s], u) <=> Contains(Rw!Handed(s, n), u) \/ Contains(rest(s), u)
             /\ \A u : ~(Contains(Rw!Handed(s, n), u) /\ Contains(rest(s), u))
             /\ IsFiniteSet(Fed(s, n))
             /\ rest(s) # <<>> => Len(Rw!Handed(s, n)) = n[s] /\ pWaiting[s] # <<>>
  BY OneList, Zenon
<1>3. pWaiting' \in [Rw!LockSems -> Seq(Users)] /\ \A s \in Rw!LockSems : pWaiting'[s] = rest(s)
  BY <1>1, <1>2
<1> HIDE DEF rest
<1>4. ASSUME NEW s \in Rw!LockSems
      PROVE  /\ pAvail'[s] = pAvail[s] + n[s] - Cardinality(Fed(s, n))
             /\ pAvail'[s] \in 0 .. LockLimit - 1
  BY <1>1, <1>2, LockTypes DEF LockAssumption
<1>5. pAvail' \in [Rw!LockSems -> 0 .. LockLimit - 1]
  <2>1. DOMAIN pAvail' = Rw!LockSems /\ pAvail' = [s \in Rw!LockSems |-> pAvail'[s]]
    BY <1>1
  <2> QED BY <2>1, <1>4
<1>6. \A u \in Users : pOutcome'[u] = IF u \in Fed("sem", n) \cup Fed("readSem", n)
                                      THEN "granted" ELSE pOutcome[u]
  BY <1>1, LockSemNames DEF Fed
<1>7. pOutcome' \in [Users -> Rw!Sem!Outcomes]
  BY <1>1, LockTypes DEF Rw!Sem!Outcomes
<1>8. ASSUME NEW s \in Rw!LockSems, NEW u \in Fed(s, n)
      PROVE  pOutcome[u] \in Rw!Sem!Waits /\ pPc[u] = LockCaller(s) /\ u \in Users
  BY <1>2 DEF Fed, LockWaitersOK
<1>9. Rw!Sem!SpecTypeOK'
  BY <1>3, <1>5, <1>7, LockSemTypesNext
<1>10. LockWaitersOK'
  <2>1. pPc'[t] = "user" /\ (\A u \in Users : u # t => pPc'[u] = pPc[u])
    BY LockTypes
  <2>2. pOutcome[t] = "idle" /\ pOutcome[t] \notin Rw!Sem!Waits /\ "granted" \notin Rw!Sem!Waits
    BY LockIdleElsewhere DEF Rw!Sem!Waits
  <2>3. ASSUME NEW s \in Rw!LockSems PROVE IsInjective(pWaiting'[s]) /\ (pWaiting'[s] # <<>> => pAvail'[s] = 0)
    <3>1. pWaiting'[s] # <<>> => pAvail[s] = 0 /\ Cardinality(Fed(s, n)) = n[s]
      BY <1>2, <1>3 DEF LockWaitersOK
    <3> QED BY <3>1, <1>2, <1>3, <1>4
  <2>4. ASSUME NEW s \in Rw!LockSems, NEW u \in Users
        PROVE  Contains(pWaiting'[s], u) <=> pOutcome'[u] \in Rw!Sem!Waits /\ pPc'[u] = LockCaller(s)
    <3>1. CASE \E r \in Rw!LockSems : u \in Fed(r, n)
      <4>1. PICK r \in Rw!LockSems : u \in Fed(r, n)
        BY <3>1
      <4>2. pOutcome'[u] \notin Rw!Sem!Waits
        BY <4>1, <1>6, <2>2, LockSemNames
      <4>3. pPc[u] = LockCaller(r) /\ Contains(Rw!Handed(r, n), u)
        BY <4>1, <1>8 DEF Fed
      <4>4. ~Contains(rest(s), u)
        <5>1. s = r => ~Contains(rest(s), u)
          BY <4>3, <1>2
        <5>2. s # r => LockCaller(s) # LockCaller(r)
          BY LockSemNames DEF LockCaller
        <5>3. s # r => ~Contains(pWaiting[s], u)
          BY <4>3, <5>2 DEF LockWaitersOK
        <5> QED BY <5>1, <5>3, <1>2
      <4> QED BY <4>2, <4>4, <1>3
    <3>2. CASE \A r \in Rw!LockSems : u \notin Fed(r, n)
      <4>1. pOutcome'[u] = pOutcome[u]
        BY <3>2, <1>6, LockSemNames
      <4>2. Contains(rest(s), u) <=> Contains(pWaiting[s], u)
        BY <3>2, <1>2 DEF Fed
      <4> QED BY <4>1, <4>2, <1>3, <2>1, <2>2 DEF LockWaitersOK
    <3> QED BY <3>1, <3>2
  <2>5. ASSUME NEW u \in Users, pOutcome'[u] # "idle" PROVE pPc'[u] \in {"wrPend", "rdPend"}
    <3>1. pOutcome[u] # "idle"
      BY <2>5, <1>6, <1>8, LockSemNames DEF Rw!Sem!Waits
    <3> QED BY <3>1, <2>1, <2>2 DEF LockWaitersOK
  <2> QED BY <2>3, <2>4, <2>5 DEF LockWaitersOK
<1> QED BY <1>2, <1>4, <1>6, <1>8, <1>9, <1>10

-----------------------------------------------------------------------------
(* Each action keeps the invariant.                                        *)

\* The others stay where they are, and this thread neither gets the lock nor
\* gives it up.
LEMMA Quiet ==
  ASSUME LockIInv, LockAssumption, NEW t \in Users,
         \A u \in Users : u # t => pPc'[u] = pPc[u] /\ pOutcome'[u] = pOutcome[u],
         pAvail'["sem"] = pAvail["sem"], UNCHANGED <<activeReaderCnt, lockOwner>>,
         t \in Writers' <=> t \in Writers, t \notin Rw!Readers, t \notin Rw!Readers',
         pPc'[t] = "writing" <=> pPc[t] = "writing"
  PROVE  /\ Writers' = Writers /\ Rw!Readers' = Rw!Readers
         /\ LockOK' /\ OwnerOK' /\ activeReaderCnt' = Cardinality(Rw!Readers')
<1>1. LockOK /\ OwnerOK /\ LockCountsOK
  BY DEF LockIInv
<1>2. Writers' \ {t} = Writers \ {t} /\ Rw!Readers' \ {t} = Rw!Readers \ {t}
  BY LockApart
<1>3. Writers' = Writers /\ Rw!Readers' = Rw!Readers
  BY <1>2
<1>4. (\E u \in Users : pPc'[u] = "writing") <=> \E u \in Users : pPc[u] = "writing"
  <2>1. \A u \in Users : pPc'[u] = "writing" <=> pPc[u] = "writing"
    OBVIOUS
  <2> QED BY <2>1
<1>5. LockOK'
  BY <1>1, <1>3 DEF LockOK
<1>6. OwnerOK'
  BY <1>1, <1>3, <1>4 DEF OwnerOK
<1> QED BY <1>1, <1>3, <1>5, <1>6 DEF LockCountsOK

\* A thread that is not at its pend, or has a token there, and that comes to
\* wait for none, leaves the blocked readers as they are.
LEMMA Unblocked ==
  ASSUME LockIInv, LockAssumption, NEW t \in Users,
         \A u \in Users : u # t => pPc'[u] = pPc[u] /\ pOutcome'[u] = pOutcome[u],
         pAvail'["readSem"] = pAvail["readSem"], UNCHANGED blockedReaderCnt,
         Writers # {} => Writers' # {},
         t \in Blocked' <=> t \in Blocked, t \in Tokenless' => t \in Tokenless
  PROVE  blockedReaderCnt' = Cardinality(Blocked') /\ LockTokensOK'
<1>1. LockCountsOK /\ LockTokensOK
  BY DEF LockIInv
<1>2. Blocked' \ {t} = Blocked \ {t} /\ Tokenless' \ {t} = Tokenless \ {t}
  BY LockApart
<1>3. Blocked' = Blocked
  BY <1>2
<1>4. Cardinality(Tokenless') <= Cardinality(Tokenless)
  <2>1. Tokenless' \subseteq Tokenless
    BY <1>2
  <2> QED BY <2>1, LockCounts, FS_Subset
<1>5. pAvail["readSem"] \in Nat
  BY LockTypes, LockSemNames DEF LockIInv
<1> QED BY <1>1, <1>3, <1>4, <1>5, LockCounts, CountsNext DEF LockCountsOK, LockTokensOK

LEMMA WrCallPreserves ==
  ASSUME LockIInv, LockAssumption, NEW t \in Users, Rw!WrCall(t)
  PROVE  LockIInv'
<1>1. Typed /\ LockWaitersOK
  BY DEF LockIInv
<1>2. /\ pPc[t] = "user" /\ pPc' = [pPc EXCEPT ![t] = "wrPend"]
      /\ UNCHANGED <<pAvail, pWaiting, pOutcome, activeReaderCnt, blockedReaderCnt, lockOwner>>
      /\ limited' \in {limited \cup {t}, limited \ {t}}
  BY DEF Rw!WrCall, Rw!At, Rw!Goto, Rw!semVars, Rw!lockVars
<1>3. /\ pPc' \in [Users -> Rw!PCs] /\ pPc'[t] = "wrPend" /\ "wrPend" \in Rw!PCs
      /\ \A u \in Users : u # t => pPc'[u] = pPc[u] /\ pOutcome'[u] = pOutcome[u]
  BY <1>1, <1>2, LockTypes DEF Rw!PCs
<1>4. pOutcome[t] = "idle"
  BY <1>1, <1>2, LockIdleElsewhere
<1>5. LockWaitersOK'
  BY <1>1, <1>2, <1>3, <1>4, LockGoes DEF LockWaitersOK
<1>6. Typed'
  BY <1>1, <1>2, <1>3, LockSemTypes, LockSemTypesNext DEF Typed
<1>7. /\ t \notin Writers /\ t \notin Writers' /\ t \notin Rw!Readers /\ t \notin Rw!Readers'
      /\ t \notin Blocked /\ t \notin Blocked' /\ t \notin Tokenless /\ t \notin Tokenless'
  BY <1>2, <1>3, <1>4 DEF Writers, Rw!Writing, Rw!Readers, Blocked, Tokenless
<1>8. /\ Writers' = Writers /\ Rw!Readers' = Rw!Readers
      /\ LockOK' /\ OwnerOK' /\ activeReaderCnt' = Cardinality(Rw!Readers')
  BY <1>2, <1>3, <1>7, Quiet
<1>9. blockedReaderCnt' = Cardinality(Blocked') /\ LockTokensOK'
  BY <1>2, <1>3, <1>7, <1>8, Unblocked
<1> QED BY <1>5, <1>6, <1>8, <1>9 DEF LockIInv, LockCountsOK

\* The writer gets the token of sem at once, or has been handed it, or waits, or
\* its time is over.
LEMMA WrPendPreserves ==
  ASSUME LockIInv, LockAssumption, NEW t \in Users, Rw!WrPend(t)
  PROVE  LockIInv'
<1>1. Typed /\ LockWaitersOK /\ LockOK /\ OwnerOK /\ LockCountsOK /\ LockTokensOK
  BY DEF LockIInv
<1>2. pPc[t] = "wrPend" /\ UNCHANGED <<activeReaderCnt, blockedReaderCnt, lockOwner, limited>>
  BY DEF Rw!WrPend, Rw!At, Rw!lockVars
<1>3. "wrTaken" \in Rw!PCs /\ "user" \in Rw!PCs /\ "sem" \in Rw!LockSems /\ "readSem" \in Rw!LockSems
  BY LockSemNames DEF Rw!PCs
<1>4. t \notin Rw!Readers /\ t \notin Blocked /\ t \notin Tokenless
  BY <1>2 DEF Rw!Readers, Blocked, Tokenless
<1>5. CASE Rw!PendTake(t, "sem") /\ Rw!Goto(t, "wrTaken")
  <2>1. pOutcome[t] = "idle" /\ Rw!Sem!Take("sem") /\ pPc' = [pPc EXCEPT ![t] = "wrTaken"]
    BY <1>5 DEF Rw!PendTake, Rw!Goto
  <2>2. /\ pAvail' \in [Rw!LockSems -> 0 .. LockLimit - 1]
        /\ pAvail["sem"] > 0 /\ pAvail'["sem"] = pAvail["sem"] - 1 /\ pAvail'["readSem"] = pAvail["readSem"]
        /\ UNCHANGED <<pWaiting, pOutcome>>
        /\ \A s \in Rw!LockSems : pWaiting[s] # <<>> => pAvail'[s] = 0
    BY <2>1, <1>1, <1>3, LockTakes
  <2>3. /\ pPc' \in [Users -> Rw!PCs] /\ pPc'[t] = "wrTaken"
        /\ \A u \in Users : u # t => pPc'[u] = pPc[u] /\ pOutcome'[u] = pOutcome[u]
    BY <2>1, <2>2, <1>1, <1>3, LockTypes
  <2>4. LockWaitersOK'
    BY <2>1, <2>2, <1>1, <1>3, LockGoes
  <2>5. Typed'
    BY <2>2, <2>3, <1>1, <1>2, LockSemTypes, LockSemTypesNext DEF Typed
  <2>6. pAvail["sem"] = 1 /\ pAvail'["sem"] = 0 /\ Writers = {} /\ Rw!Readers = {}
    BY <2>2, <1>1 DEF LockOK
  <2>7. t \in Writers' /\ t \notin Rw!Readers' /\ t \notin Blocked' /\ t \notin Tokenless'
    BY <2>3 DEF Writers, Rw!Writing, Rw!Readers, Blocked, Tokenless
  <2>8. Writers' = {t} /\ Rw!Readers' = {} /\ Blocked' = Blocked
    <3>1. Writers' \ {t} = Writers \ {t} /\ Rw!Readers' \ {t} = Rw!Readers \ {t} /\ Blocked' \ {t} = Blocked \ {t}
      BY <2>3, LockApart
    <3> QED BY <3>1, <2>6, <2>7, <1>4
  <2>9. LockOK' /\ LockTokensOK'
    BY <2>6, <2>8 DEF LockOK, LockTokensOK
  <2>10. LockCountsOK'
    BY <2>6, <2>8, <1>1, <1>2 DEF LockCountsOK
  <2>11. OwnerOK'
    <3>1. \A u \in Users : pPc'[u] = "writing" <=> pPc[u] = "writing"
      BY <2>3, <1>2
    <3> QED BY <3>1, <2>6, <2>8, <1>1, <1>2 DEF OwnerOK
  <2> QED BY <2>4, <2>5, <2>9, <2>10, <2>11 DEF LockIInv
<1>6. ASSUME Rw!Sem!SpecTypeOK', LockWaitersOK', pAvail' = pAvail, pPc' \in [Users -> Rw!PCs],
             \A u \in Users : u # t => pPc'[u] = pPc[u] /\ pOutcome'[u] = pOutcome[u],
             pPc'[t] \in {"user", "wrPend", "wrTaken"}, t \in Writers' <=> t \in Writers
      PROVE  LockIInv'
  <2>1. t \notin Rw!Readers' /\ t \notin Blocked' /\ t \notin Tokenless'
    BY <1>6 DEF Rw!Readers, Blocked, Tokenless
  <2>2. /\ Writers' = Writers
        /\ LockOK' /\ OwnerOK' /\ activeReaderCnt' = Cardinality(Rw!Readers')
    BY <2>1, <1>2, <1>4, <1>6, Quiet
  <2>3. blockedReaderCnt' = Cardinality(Blocked') /\ LockTokensOK'
    BY <2>1, <2>2, <1>2, <1>4, <1>6, Unblocked
  <2>4. Typed'
    BY <1>1, <1>2, <1>6 DEF Typed
  <2> QED BY <2>2, <2>3, <2>4, <1>6 DEF LockIInv, LockCountsOK
<1>7. CASE Rw!PendGranted(t) /\ Rw!Goto(t, "wrTaken")
  <2>1. pOutcome[t] = "granted" /\ Rw!Sem!Return(t) /\ pPc' = [pPc EXCEPT ![t] = "wrTaken"]
    BY <1>7 DEF Rw!PendGranted, Rw!Goto
  <2>2. /\ Rw!Sem!SpecTypeOK' /\ LockWaitersOK' /\ pAvail' = pAvail
        /\ \A u \in Users : u # t => pOutcome'[u] = pOutcome[u]
    BY <2>1, <1>1, <1>3, LockReturns
  <2>3. pPc' \in [Users -> Rw!PCs] /\ pPc'[t] = "wrTaken" /\ \A u \in Users : u # t => pPc'[u] = pPc[u]
    BY <2>1, <1>1, <1>3, LockTypes
  <2>4. t \in Writers /\ t \in Writers'
    BY <2>1, <2>3, <1>2 DEF Writers, Rw!Writing
  <2> QED BY <2>2, <2>3, <2>4, <1>6
<1>8. CASE Rw!PendWait(t, "sem") /\ UNCHANGED pPc
  <2>1. /\ Rw!Sem!SpecTypeOK' /\ LockWaitersOK' /\ pAvail' = pAvail
        /\ pOutcome[t] = "idle" /\ pOutcome'[t] \in Rw!Sem!Waits
        /\ \A u \in Users : u # t => pOutcome'[u] = pOutcome[u]
    <3>1. pPc[t] = LockCaller("sem")
      BY <1>2 DEF LockCaller
    <3> QED BY <3>1, <1>1, <1>3, <1>8, LockWaits
  <2>2. pPc' \in [Users -> Rw!PCs] /\ pPc'[t] = "wrPend" /\ \A u \in Users : u # t => pPc'[u] = pPc[u]
    BY <1>1, <1>2, <1>8, LockTypes
  <2>3. t \notin Writers /\ t \notin Writers'
    BY <2>1, <2>2, <1>2 DEF Writers, Rw!Writing, Rw!Sem!Waits
  <2> QED BY <2>1, <2>2, <2>3, <1>6
<1>9. CASE Rw!PendTimedOut(t) /\ Rw!Goto(t, "user")
  <2>1. pOutcome[t] = "timedout" /\ Rw!Sem!Return(t) /\ pPc' = [pPc EXCEPT ![t] = "user"]
    BY <1>9 DEF Rw!PendTimedOut, Rw!Goto
  <2>2. /\ Rw!Sem!SpecTypeOK' /\ LockWaitersOK' /\ pAvail' = pAvail
        /\ \A u \in Users : u # t => pOutcome'[u] = pOutcome[u]
    BY <2>1, <1>1, <1>3, LockReturns
  <2>3. pPc' \in [Users -> Rw!PCs] /\ pPc'[t] = "user" /\ \A u \in Users : u # t => pPc'[u] = pPc[u]
    BY <2>1, <1>1, <1>3, LockTypes
  <2>4. t \notin Writers /\ t \notin Writers'
    BY <2>1, <2>3, <1>2 DEF Writers, Rw!Writing
  <2> QED BY <2>2, <2>3, <2>4, <1>6
<1>10. CASE /\ t \in limited /\ pOutcome[t] = "idle" /\ pAvail["sem"] = 0
            /\ UNCHANGED Rw!semVars /\ Rw!Goto(t, "user")
  <2>1. pPc' = [pPc EXCEPT ![t] = "user"] /\ UNCHANGED <<pAvail, pWaiting, pOutcome>>
    BY <1>10 DEF Rw!Goto, Rw!semVars
  <2>2. LockWaitersOK'
    BY <2>1, <1>1, <1>3, <1>10, LockGoes DEF LockWaitersOK
  <2>3. pPc' \in [Users -> Rw!PCs] /\ pPc'[t] = "user" /\ \A u \in Users : u # t => pPc'[u] = pPc[u]
    BY <2>1, <1>1, <1>3, LockTypes
  <2>4. t \notin Writers /\ t \notin Writers'
    BY <2>3, <1>2, <1>10 DEF Writers, Rw!Writing
  <2>5. Rw!Sem!SpecTypeOK'
    BY <2>1, <1>1, LockSemTypes, LockSemTypesNext DEF Typed
  <2> QED BY <2>1, <2>2, <2>3, <2>4, <2>5, <1>6
<1> QED BY <1>5, <1>7, <1>8, <1>9, <1>10 DEF Rw!WrPend

LEMMA WrTakenPreserves ==
  ASSUME LockIInv, LockAssumption, NEW t \in Users, Rw!WrTaken(t)
  PROVE  LockIInv'
<1>1. Typed /\ LockWaitersOK /\ LockOK /\ OwnerOK /\ LockCountsOK /\ LockTokensOK
  BY DEF LockIInv
<1>2. /\ pPc[t] = "wrTaken" /\ pPc' = [pPc EXCEPT ![t] = "writing"] /\ lockOwner' = {t}
      /\ UNCHANGED <<pAvail, pWaiting, pOutcome, activeReaderCnt, blockedReaderCnt, limited>>
  BY DEF Rw!WrTaken, Rw!At, Rw!Goto, Rw!semVars
<1>3. /\ pPc' \in [Users -> Rw!PCs] /\ pPc'[t] = "writing" /\ "writing" \in Rw!PCs
      /\ \A u \in Users : u # t => pPc'[u] = pPc[u] /\ pOutcome'[u] = pOutcome[u]
  BY <1>1, <1>2, LockTypes DEF Rw!PCs
<1>4. pOutcome[t] = "idle"
  BY <1>1, <1>2, LockIdleElsewhere
<1>5. LockWaitersOK'
  BY <1>1, <1>2, <1>3, <1>4, LockGoes DEF LockWaitersOK
<1>6. Typed'
  BY <1>1, <1>2, <1>3, LockSemTypes, LockSemTypesNext DEF Typed
<1>7. /\ t \in Writers /\ t \in Writers' /\ t \notin Rw!Readers /\ t \notin Rw!Readers'
      /\ t \notin Blocked /\ t \notin Blocked' /\ t \notin Tokenless /\ t \notin Tokenless'
  BY <1>2, <1>3 DEF Writers, Rw!Writing, Rw!Readers, Blocked, Tokenless
<1>8. Writers' = Writers /\ Rw!Readers' = Rw!Readers
  <2>1. Writers' \ {t} = Writers \ {t} /\ Rw!Readers' \ {t} = Rw!Readers \ {t}
    BY <1>3, LockApart
  <2> QED BY <2>1, <1>7
<1>9. LockOK' /\ OwnerOK'
  BY <1>1, <1>2, <1>3, <1>8 DEF LockOK, OwnerOK
<1>10. blockedReaderCnt' = Cardinality(Blocked') /\ LockTokensOK'
  BY <1>2, <1>3, <1>7, <1>8, Unblocked
<1> QED BY <1>1, <1>2, <1>5, <1>6, <1>8, <1>9, <1>10 DEF LockIInv, LockCountsOK

\* A reader that was counted as blocked, and had its token or its time was over,
\* is counted no more.
LEMMA NoLongerBlocked ==
  ASSUME LockIInv, LockAssumption, NEW t \in Users,
         \A u \in Users : u # t => pPc'[u] = pPc[u] /\ pOutcome'[u] = pOutcome[u],
         pAvail'["readSem"] = pAvail["readSem"], blockedReaderCnt' = blockedReaderCnt - 1,
         Writers # {} => Writers' # {},
         t \in Blocked, t \notin Blocked', t \notin Tokenless, t \notin Tokenless'
  PROVE  blockedReaderCnt' = Cardinality(Blocked') /\ blockedReaderCnt' \in Nat /\ LockTokensOK'
<1>1. LockCountsOK /\ LockTokensOK
  BY DEF LockIInv
<1>2. Blocked' \ {t} = Blocked \ {t} /\ Tokenless' \ {t} = Tokenless \ {t}
  BY LockApart
<1>3. Cardinality(Blocked') = Cardinality(Blocked) - 1
  BY <1>2, LockCounts, Resized
<1>4. Tokenless' = Tokenless
  BY <1>2
<1> QED BY <1>1, <1>3, <1>4, CountsNext DEF LockCountsOK, LockTokensOK

\* While a writer is inside a reader finds no token, and is blocked.
LEMMA WriterInside ==
  ASSUME LockIInv, LockAssumption, Rw!NoReading
  PROVE  Writers # {}
<1>1. Rw!Readers = {}
  BY LockCounts DEF LockIInv, LockCountsOK, Rw!NoReading
<1> QED BY <1>1 DEF LockIInv, LockOK, Rw!NoReading

\* A reader comes in, beside the others or with the token of sem.
LEMMA Becomes ==
  ASSUME LockIInv, LockAssumption, NEW t \in Users, pPc[t] \in {"user", "rdTry"},
         Rw!BecomeReader(t), pPc' = [pPc EXCEPT ![t] = "reading"]
  PROVE  /\ Rw!Sem!SpecTypeOK' /\ LockWaitersOK'
         /\ pPc' \in [Users -> Rw!PCs] /\ pPc'[t] = "reading"
         /\ \A u \in Users : u # t => pPc'[u] = pPc[u] /\ pOutcome'[u] = pOutcome[u]
         /\ pAvail'["readSem"] = pAvail["readSem"]
         /\ Writers = {} /\ LockOK' /\ OwnerOK'
         /\ activeReaderCnt' = Cardinality(Rw!Readers') /\ activeReaderCnt' \in Nat
<1>1. Typed /\ LockWaitersOK /\ LockOK /\ OwnerOK /\ LockCountsOK
  BY DEF LockIInv
<1>2. "reading" \in Rw!PCs /\ "sem" \in Rw!LockSems /\ "readSem" \in Rw!LockSems
  BY LockSemNames DEF Rw!PCs
<1>3. pPc' \in [Users -> Rw!PCs] /\ pPc'[t] = "reading" /\ \A u \in Users : u # t => pPc'[u] = pPc[u]
  BY <1>1, <1>2, LockTypes
<1>4. pOutcome[t] = "idle" /\ t \notin Rw!Readers /\ t \notin Writers
  BY <1>1, LockIdleElsewhere DEF Rw!Readers, Writers, Rw!Writing
<1>5. t \in Rw!Readers' /\ t \notin Writers'
  BY <1>3 DEF Rw!Readers, Writers, Rw!Writing
<1>6. activeReaderCnt' = activeReaderCnt + 1 /\ activeReaderCnt = Cardinality(Rw!Readers)
  BY <1>1 DEF Rw!BecomeReader, LockCountsOK
<1>7. ASSUME pOutcome' = pOutcome
      PROVE  /\ Writers' = Writers /\ Rw!Readers' = Rw!Readers \cup {t}
             /\ activeReaderCnt' = Cardinality(Rw!Readers') /\ activeReaderCnt' \in Nat
             /\ \A u \in Users : pPc'[u] = "writing" <=> pPc[u] = "writing"
  <2>1. Writers' \ {t} = Writers \ {t} /\ Rw!Readers' \ {t} = Rw!Readers \ {t}
    BY <1>3, <1>7, LockApart
  <2>2. Cardinality(Rw!Readers') = Cardinality(Rw!Readers) + 1
    BY <2>1, <1>4, <1>5, LockCounts, Resized
  <2>3. Writers' = Writers /\ Rw!Readers' = Rw!Readers \cup {t}
    BY <2>1, <1>4, <1>5
  <2>4. \A u \in Users : pPc'[u] = "writing" <=> pPc[u] = "writing"
    BY <1>1, <1>3
  <2>5. activeReaderCnt' = Cardinality(Rw!Readers') /\ activeReaderCnt' \in Nat
    BY <2>2, <1>6, LockCounts
  <2> QED BY <2>3, <2>4, <2>5
<1>8. CASE activeReaderCnt > 0
  <2>1. UNCHANGED <<pAvail, pWaiting, pOutcome, lockOwner>>
    BY <1>8 DEF Rw!BecomeReader, Rw!semVars
  <2>2. LockWaitersOK'
    BY <2>1, <1>1, <1>2, <1>4, LockGoes DEF LockWaitersOK
  <2>3. Rw!Sem!SpecTypeOK'
    BY <2>1, <1>1, LockSemTypes, LockSemTypesNext DEF Typed
  <2>4. Rw!Readers # {}
    BY <1>6, <1>8, LockCounts
  <2>5. Writers = {} /\ pAvail["sem"] # 1
    BY <2>4, <1>1 DEF LockOK
  <2>6. LockOK'
    BY <2>1, <2>5, <1>1, <1>7 DEF LockOK
  <2>7. OwnerOK'
    BY <2>1, <2>4, <1>1, <1>7 DEF OwnerOK
  <2> QED BY <2>1, <2>2, <2>3, <2>5, <2>6, <2>7, <1>3, <1>7
<1>9. CASE ~(activeReaderCnt > 0)
  <2>1. Rw!Sem!Take("sem") /\ lockOwner' = {t}
    BY <1>9 DEF Rw!BecomeReader
  <2>2. /\ pAvail' \in [Rw!LockSems -> 0 .. LockLimit - 1]
        /\ pAvail["sem"] > 0 /\ pAvail'["sem"] = pAvail["sem"] - 1 /\ pAvail'["readSem"] = pAvail["readSem"]
        /\ UNCHANGED <<pWaiting, pOutcome>>
        /\ \A s \in Rw!LockSems : pWaiting[s] # <<>> => pAvail'[s] = 0
    BY <2>1, <1>1, <1>2, LockTakes
  <2>3. LockWaitersOK'
    BY <2>2, <1>1, <1>2, <1>4, LockGoes
  <2>4. Rw!Sem!SpecTypeOK'
    BY <2>2, <1>1, LockSemTypes, LockSemTypesNext DEF Typed
  <2>5. Writers = {} /\ Rw!Readers = {} /\ pAvail["sem"] = 1 /\ pAvail'["sem"] = 0
    BY <2>2, <1>1 DEF LockOK
  <2>6. LockOK'
    <3>1. Writers' = {} /\ Rw!Readers' # {}
      BY <2>2, <2>5, <1>7
    <3> QED BY <3>1, <2>5 DEF LockOK
  <2>7. OwnerOK'
    BY <2>1, <2>2, <1>7 DEF OwnerOK
  <2> QED BY <2>2, <2>3, <2>4, <2>5, <2>6, <2>7, <1>3, <1>7
<1> QED BY <1>8, <1>9

LEMMA RdAcquirePreserves ==
  ASSUME LockIInv, LockAssumption, NEW t \in Users, Rw!RdAcquire(t)
  PROVE  LockIInv'
<1>1. Typed /\ LockWaitersOK /\ LockOK /\ OwnerOK /\ LockCountsOK /\ LockTokensOK
  BY DEF LockIInv
<1>2. pPc[t] = "user" /\ pOutcome[t] = "idle"
  BY <1>1, LockIdleElsewhere DEF Rw!RdAcquire, Rw!At
<1>3. t \notin Rw!Readers /\ t \notin Writers /\ t \notin Blocked /\ t \notin Tokenless
  BY <1>2 DEF Rw!Readers, Writers, Rw!Writing, Blocked, Tokenless
<1>4. CASE Rw!BecomeReader(t) /\ Rw!Goto(t, "reading") /\ UNCHANGED <<blockedReaderCnt, limited>>
  <2>1. pPc' = [pPc EXCEPT ![t] = "reading"] /\ UNCHANGED <<blockedReaderCnt, limited>>
    BY <1>4 DEF Rw!Goto
  <2>2. /\ Rw!Sem!SpecTypeOK' /\ LockWaitersOK'
        /\ pPc' \in [Users -> Rw!PCs] /\ pPc'[t] = "reading"
        /\ \A u \in Users : u # t => pPc'[u] = pPc[u] /\ pOutcome'[u] = pOutcome[u]
        /\ pAvail'["readSem"] = pAvail["readSem"]
        /\ Writers = {} /\ LockOK' /\ OwnerOK'
        /\ activeReaderCnt' = Cardinality(Rw!Readers') /\ activeReaderCnt' \in Nat
    BY <2>1, <1>2, <1>4, Becomes
  <2>3. t \notin Blocked' /\ t \notin Tokenless'
    BY <2>2 DEF Blocked, Tokenless
  <2>4. blockedReaderCnt' = Cardinality(Blocked') /\ LockTokensOK'
    BY <2>1, <2>2, <2>3, <1>3, Unblocked
  <2>5. Typed'
    BY <2>1, <2>2, <1>1 DEF Typed
  <2> QED BY <2>2, <2>4, <2>5 DEF LockIInv, LockCountsOK
<1>5. CASE /\ Rw!NoReading
           /\ blockedReaderCnt' = blockedReaderCnt + 1
           /\ Rw!Goto(t, "rdPend")
           /\ limited' \in {limited \cup {t}, limited \ {t}}
           /\ UNCHANGED <<Rw!semVars, activeReaderCnt, lockOwner>>
  <2>1. /\ pPc' = [pPc EXCEPT ![t] = "rdPend"]
        /\ UNCHANGED <<pAvail, pWaiting, pOutcome, activeReaderCnt, lockOwner>>
    BY <1>5 DEF Rw!Goto, Rw!semVars
  <2>2. /\ pPc' \in [Users -> Rw!PCs] /\ pPc'[t] = "rdPend" /\ "rdPend" \in Rw!PCs
        /\ \A u \in Users : u # t => pPc'[u] = pPc[u] /\ pOutcome'[u] = pOutcome[u]
    BY <2>1, <1>1, LockTypes DEF Rw!PCs
  <2>3. LockWaitersOK'
    BY <2>1, <2>2, <1>1, <1>2, LockGoes DEF LockWaitersOK
  <2>4. Typed'
    BY <2>1, <2>2, <1>1, <1>5, LockSemTypes, LockSemTypesNext DEF Typed
  <2>5. t \notin Writers' /\ t \notin Rw!Readers' /\ t \in Blocked'
    BY <2>1, <2>2, <1>2 DEF Writers, Rw!Writing, Rw!Readers, Blocked
  <2>6. /\ Writers' = Writers
        /\ LockOK' /\ OwnerOK' /\ activeReaderCnt' = Cardinality(Rw!Readers')
    BY <2>1, <2>2, <2>5, <1>2, <1>3, Quiet
  <2>7. LockTokensOK'
    BY <2>6, <1>5, WriterInside DEF LockTokensOK
  <2>8. Blocked' \ {t} = Blocked \ {t}
    BY <2>2, LockApart
  <2>9. blockedReaderCnt' = Cardinality(Blocked')
    BY <2>5, <2>8, <1>1, <1>3, <1>5, LockCounts, Resized DEF LockCountsOK
  <2> QED BY <2>3, <2>4, <2>6, <2>7, <2>9 DEF LockIInv, LockCountsOK
<1> QED BY <1>4, <1>5 DEF Rw!RdAcquire

\* A reader takes a token of readSem, has been handed one, waits, or its time is over.
LEMMA RdPendPreserves ==
  ASSUME LockIInv, LockAssumption, NEW t \in Users, Rw!RdPend(t)
  PROVE  LockIInv'
<1>1. Typed /\ LockWaitersOK /\ LockOK /\ OwnerOK /\ LockCountsOK /\ LockTokensOK
  BY DEF LockIInv
<1>2. pPc[t] = "rdPend" /\ UNCHANGED <<activeReaderCnt, blockedReaderCnt, lockOwner, limited>>
  BY DEF Rw!RdPend, Rw!At, Rw!lockVars
<1>3. "rdTry" \in Rw!PCs /\ "rdTimedOut" \in Rw!PCs /\ "sem" \in Rw!LockSems /\ "readSem" \in Rw!LockSems
  BY LockSemNames DEF Rw!PCs
<1>4. t \notin Writers /\ t \notin Rw!Readers /\ t \in Blocked
  BY <1>2 DEF Writers, Rw!Writing, Rw!Readers, Blocked
<1>5. ASSUME pPc' \in [Users -> Rw!PCs], pPc'[t] \in {"rdPend", "rdTry", "rdTimedOut"},
             \A u \in Users : u # t => pPc'[u] = pPc[u] /\ pOutcome'[u] = pOutcome[u],
             pAvail'["sem"] = pAvail["sem"]
      PROVE  /\ Writers' = Writers /\ t \in Blocked' /\ Blocked' = Blocked
             /\ LockOK' /\ OwnerOK' /\ LockCountsOK'
  <2>1. t \notin Writers' /\ t \notin Rw!Readers' /\ t \in Blocked'
    BY <1>5 DEF Writers, Rw!Writing, Rw!Readers, Blocked
  <2>2. /\ Writers' = Writers
        /\ LockOK' /\ OwnerOK' /\ activeReaderCnt' = Cardinality(Rw!Readers')
    BY <2>1, <1>2, <1>4, <1>5, Quiet
  <2>3. Blocked' = Blocked
    <3>1. Blocked' \ {t} = Blocked \ {t}
      BY <1>5, LockApart
    <3> QED BY <3>1, <2>1, <1>4
  <2> QED BY <2>1, <2>2, <2>3, <1>1, <1>2 DEF LockCountsOK
<1>6. CASE Rw!PendTake(t, "readSem") /\ Rw!Goto(t, "rdTry")
  <2>1. pOutcome[t] = "idle" /\ Rw!Sem!Take("readSem") /\ pPc' = [pPc EXCEPT ![t] = "rdTry"]
    BY <1>6 DEF Rw!PendTake, Rw!Goto
  <2>2. /\ pAvail' \in [Rw!LockSems -> 0 .. LockLimit - 1]
        /\ pAvail'["readSem"] = pAvail["readSem"] - 1 /\ pAvail'["sem"] = pAvail["sem"]
        /\ UNCHANGED <<pWaiting, pOutcome>>
        /\ \A s \in Rw!LockSems : pWaiting[s] # <<>> => pAvail'[s] = 0
    BY <2>1, <1>1, <1>3, LockTakes
  <2>3. /\ pPc' \in [Users -> Rw!PCs] /\ pPc'[t] = "rdTry"
        /\ \A u \in Users : u # t => pPc'[u] = pPc[u] /\ pOutcome'[u] = pOutcome[u]
    BY <2>1, <2>2, <1>1, <1>3, LockTypes
  <2>4. LockWaitersOK'
    BY <2>1, <2>2, <1>1, <1>3, LockGoes
  <2>5. Typed'
    BY <2>2, <2>3, <1>1, <1>2, LockSemTypes, LockSemTypesNext DEF Typed
  <2>6. Writers' = Writers /\ LockOK' /\ OwnerOK' /\ LockCountsOK'
    BY <2>2, <2>3, <1>5
  <2>7. LockTokensOK'
    <3>1. t \in Tokenless /\ t \notin Tokenless'
      BY <2>1, <2>3, <1>2 DEF Tokenless
    <3>2. Tokenless' \ {t} = Tokenless \ {t}
      BY <2>3, LockApart
    <3>3. Cardinality(Tokenless') = Cardinality(Tokenless) - 1
      BY <3>1, <3>2, LockCounts, Resized
    <3>4. pAvail["readSem"] \in Nat
      BY <1>1, <1>3, LockTypes
    <3> QED BY <3>3, <3>4, <2>2, <2>6, <1>1, LockCounts DEF LockTokensOK
  <2> QED BY <2>4, <2>5, <2>6, <2>7 DEF LockIInv
<1>7. ASSUME Rw!Sem!SpecTypeOK', LockWaitersOK', pAvail' = pAvail, pPc' \in [Users -> Rw!PCs],
             \A u \in Users : u # t => pPc'[u] = pPc[u] /\ pOutcome'[u] = pOutcome[u],
             pPc'[t] \in {"rdPend", "rdTry", "rdTimedOut"}, t \in Tokenless' => t \in Tokenless
      PROVE  LockIInv'
  <2>1. Writers' = Writers /\ t \in Blocked' /\ LockOK' /\ OwnerOK' /\ LockCountsOK'
    BY <1>5, <1>7
  <2>2. LockTokensOK'
    BY <2>1, <1>2, <1>4, <1>7, Unblocked
  <2>3. Typed'
    BY <1>1, <1>2, <1>7 DEF Typed
  <2> QED BY <2>1, <2>2, <2>3, <1>7 DEF LockIInv
<1>8. ASSUME NEW k \in {"rdTry", "rdTimedOut"}, Rw!Sem!Return(t), pPc' = [pPc EXCEPT ![t] = k]
      PROVE  LockIInv'
  <2>1. /\ Rw!Sem!SpecTypeOK' /\ LockWaitersOK' /\ pAvail' = pAvail
        /\ \A u \in Users : u # t => pOutcome'[u] = pOutcome[u]
    <3>1. k \in Rw!PCs
      BY <1>3
    <3> QED BY <3>1, <1>1, <1>8, LockReturns
  <2>2. pPc' \in [Users -> Rw!PCs] /\ pPc'[t] = k /\ \A u \in Users : u # t => pPc'[u] = pPc[u]
    BY <1>1, <1>3, <1>8, LockTypes
  <2>3. t \notin Tokenless'
    BY <2>2 DEF Tokenless
  <2> QED BY <2>1, <2>2, <2>3, <1>7
<1>9. CASE Rw!PendGranted(t) /\ Rw!Goto(t, "rdTry")
  BY <1>8, <1>9 DEF Rw!PendGranted, Rw!Goto
<1>10. CASE Rw!PendTimedOut(t) /\ Rw!Goto(t, "rdTimedOut")
  BY <1>8, <1>10 DEF Rw!PendTimedOut, Rw!Goto
<1>11. CASE Rw!PendWait(t, "readSem") /\ UNCHANGED pPc
  <2>1. /\ Rw!Sem!SpecTypeOK' /\ LockWaitersOK' /\ pAvail' = pAvail
        /\ pOutcome[t] = "idle"
        /\ \A u \in Users : u # t => pOutcome'[u] = pOutcome[u]
    <3>1. pPc[t] = LockCaller("readSem")
      BY <1>2 DEF LockCaller
    <3> QED BY <3>1, <1>1, <1>3, <1>11, LockWaits
  <2>2. pPc' \in [Users -> Rw!PCs] /\ pPc'[t] = "rdPend" /\ \A u \in Users : u # t => pPc'[u] = pPc[u]
    BY <1>1, <1>2, <1>11, LockTypes
  <2>3. t \in Tokenless
    BY <2>1, <1>2 DEF Tokenless
  <2> QED BY <2>1, <2>2, <2>3, <1>7
<1> QED BY <1>6, <1>9, <1>10, <1>11 DEF Rw!RdPend

\* A reader with a token tries again: it comes in, or another writer is inside and
\* it waits for another token, or its time is over.
LEMMA RdTryPreserves ==
  ASSUME LockIInv, LockAssumption, NEW t \in Users, Rw!RdTry(t)
  PROVE  LockIInv'
<1>1. Typed /\ LockWaitersOK /\ LockOK /\ OwnerOK /\ LockCountsOK /\ LockTokensOK
  BY DEF LockIInv
<1>2. pPc[t] = "rdTry" /\ pOutcome[t] = "idle" /\ limited' = limited
  BY <1>1, LockIdleElsewhere DEF Rw!RdTry, Rw!At
<1>3. t \notin Rw!Readers /\ t \notin Writers /\ t \in Blocked /\ t \notin Tokenless
  BY <1>2 DEF Rw!Readers, Writers, Rw!Writing, Blocked, Tokenless
<1>4. CASE Rw!BecomeReader(t) /\ Rw!Goto(t, "reading") /\ blockedReaderCnt' = blockedReaderCnt - 1
  <2>1. pPc' = [pPc EXCEPT ![t] = "reading"]
    BY <1>4 DEF Rw!Goto
  <2>2. /\ Rw!Sem!SpecTypeOK' /\ LockWaitersOK'
        /\ pPc' \in [Users -> Rw!PCs] /\ pPc'[t] = "reading"
        /\ \A u \in Users : u # t => pPc'[u] = pPc[u] /\ pOutcome'[u] = pOutcome[u]
        /\ pAvail'["readSem"] = pAvail["readSem"]
        /\ Writers = {} /\ LockOK' /\ OwnerOK'
        /\ activeReaderCnt' = Cardinality(Rw!Readers') /\ activeReaderCnt' \in Nat
    BY <2>1, <1>2, <1>4, Becomes
  <2>3. t \notin Blocked' /\ t \notin Tokenless'
    BY <2>2 DEF Blocked, Tokenless
  <2>4. blockedReaderCnt' = Cardinality(Blocked') /\ blockedReaderCnt' \in Nat /\ LockTokensOK'
    BY <2>2, <2>3, <1>3, <1>4, NoLongerBlocked
  <2>5. Typed'
    BY <2>2, <2>4, <1>1, <1>2 DEF Typed
  <2> QED BY <2>2, <2>4, <2>5 DEF LockIInv, LockCountsOK
<1>5. ASSUME NEW k \in {"rdPend", "user"}, pPc' = [pPc EXCEPT ![t] = k],
             UNCHANGED <<pAvail, pWaiting, pOutcome, activeReaderCnt, lockOwner>>
      PROVE  /\ LockWaitersOK' /\ Rw!Sem!SpecTypeOK'
             /\ pPc' \in [Users -> Rw!PCs] /\ pPc'[t] = k
             /\ \A u \in Users : u # t => pPc'[u] = pPc[u] /\ pOutcome'[u] = pOutcome[u]
             /\ Writers' = Writers
             /\ LockOK' /\ OwnerOK' /\ activeReaderCnt' = Cardinality(Rw!Readers')
  <2>1. /\ pPc' \in [Users -> Rw!PCs] /\ pPc'[t] = k /\ k \in Rw!PCs
        /\ \A u \in Users : u # t => pPc'[u] = pPc[u] /\ pOutcome'[u] = pOutcome[u]
    BY <1>1, <1>5, LockTypes DEF Rw!PCs
  <2>2. LockWaitersOK'
    <3>1. \A s \in Rw!LockSems : pWaiting[s] # <<>> => pAvail'[s] = 0
      BY <1>1, <1>5 DEF LockWaitersOK
    <3> QED BY <3>1, <2>1, <1>1, <1>2, <1>5, LockGoes
  <2>3. Rw!Sem!SpecTypeOK'
    BY <1>1, <1>5, LockSemTypes, LockSemTypesNext DEF Typed
  <2>4. t \notin Rw!Readers' /\ t \notin Writers' /\ pPc'[t] # "writing"
    BY <2>1, <1>2, <1>5 DEF Rw!Readers, Writers, Rw!Writing
  <2>5. /\ Writers' = Writers
        /\ LockOK' /\ OwnerOK' /\ activeReaderCnt' = Cardinality(Rw!Readers')
    BY <2>1, <2>4, <1>2, <1>3, <1>5, Quiet
  <2> QED BY <2>1, <2>2, <2>3, <2>5
<1>6. CASE Rw!NoReading /\ Rw!Goto(t, "rdPend") /\ UNCHANGED <<Rw!semVars, Rw!lockVars>>
  <2>1. /\ pPc' = [pPc EXCEPT ![t] = "rdPend"]
        /\ UNCHANGED <<pAvail, pWaiting, pOutcome, activeReaderCnt, blockedReaderCnt, lockOwner>>
    BY <1>6 DEF Rw!Goto, Rw!semVars, Rw!lockVars
  <2>2. /\ LockWaitersOK' /\ Rw!Sem!SpecTypeOK'
        /\ pPc' \in [Users -> Rw!PCs] /\ pPc'[t] = "rdPend"
        /\ \A u \in Users : u # t => pPc'[u] = pPc[u] /\ pOutcome'[u] = pOutcome[u]
        /\ Writers' = Writers
        /\ LockOK' /\ OwnerOK' /\ activeReaderCnt' = Cardinality(Rw!Readers')
    BY <2>1, <1>5
  <2>3. Blocked' = Blocked
    <3>1. t \in Blocked'
      BY <2>2 DEF Blocked
    <3>2. Blocked' \ {t} = Blocked \ {t}
      BY <2>2, LockApart
    <3> QED BY <3>1, <3>2, <1>3
  <2>4. LockTokensOK'
    BY <2>2, <1>6, WriterInside DEF LockTokensOK
  <2>5. Typed'
    BY <2>1, <2>2, <1>1, <1>2 DEF Typed
  <2> QED BY <2>1, <2>2, <2>3, <2>4, <2>5, <1>1 DEF LockIInv, LockCountsOK
<1>7. CASE /\ Rw!Goto(t, "user") /\ blockedReaderCnt' = blockedReaderCnt - 1
           /\ UNCHANGED <<Rw!semVars, activeReaderCnt, lockOwner>>
  <2>1. /\ pPc' = [pPc EXCEPT ![t] = "user"]
        /\ UNCHANGED <<pAvail, pWaiting, pOutcome, activeReaderCnt, lockOwner>>
    BY <1>7 DEF Rw!Goto, Rw!semVars
  <2>2. /\ LockWaitersOK' /\ Rw!Sem!SpecTypeOK'
        /\ pPc' \in [Users -> Rw!PCs] /\ pPc'[t] = "user"
        /\ \A u \in Users : u # t => pPc'[u] = pPc[u] /\ pOutcome'[u] = pOutcome[u]
        /\ Writers' = Writers
        /\ LockOK' /\ OwnerOK' /\ activeReaderCnt' = Cardinality(Rw!Readers')
    BY <2>1, <1>5
  <2>3. t \notin Blocked' /\ t \notin Tokenless'
    BY <2>2 DEF Blocked, Tokenless
  <2>4. blockedReaderCnt' = Cardinality(Blocked') /\ blockedReaderCnt' \in Nat /\ LockTokensOK'
    BY <2>1, <2>2, <2>3, <1>3, <1>7, NoLongerBlocked
  <2>5. Typed'
    BY <2>1, <2>2, <2>4, <1>1, <1>2 DEF Typed
  <2> QED BY <2>2, <2>4, <2>5 DEF LockIInv, LockCountsOK
<1> QED BY <1>4, <1>6, <1>7 DEF Rw!RdTry

LEMMA RdTimedOutPreserves ==
  ASSUME LockIInv, LockAssumption, NEW t \in Users, Rw!RdTimedOut(t)
  PROVE  LockIInv'
<1>1. Typed /\ LockWaitersOK /\ LockOK /\ OwnerOK /\ LockCountsOK /\ LockTokensOK
  BY DEF LockIInv
<1>2. /\ pPc[t] = "rdTimedOut" /\ pPc' = [pPc EXCEPT ![t] = "user"]
      /\ blockedReaderCnt' = blockedReaderCnt - 1
      /\ UNCHANGED <<pAvail, pWaiting, pOutcome, activeReaderCnt, lockOwner, limited>>
  BY DEF Rw!RdTimedOut, Rw!At, Rw!Goto, Rw!semVars
<1>3. pOutcome[t] = "idle"
  BY <1>1, <1>2, LockIdleElsewhere
<1>4. /\ pPc' \in [Users -> Rw!PCs] /\ pPc'[t] = "user" /\ "user" \in Rw!PCs
      /\ \A u \in Users : u # t => pPc'[u] = pPc[u] /\ pOutcome'[u] = pOutcome[u]
  BY <1>1, <1>2, LockTypes DEF Rw!PCs
<1>5. LockWaitersOK'
  BY <1>1, <1>2, <1>3, <1>4, LockGoes DEF LockWaitersOK
<1>6. /\ t \notin Writers /\ t \notin Writers' /\ t \notin Rw!Readers /\ t \notin Rw!Readers'
      /\ t \in Blocked /\ t \notin Blocked' /\ t \notin Tokenless /\ t \notin Tokenless'
  BY <1>2, <1>4 DEF Writers, Rw!Writing, Rw!Readers, Blocked, Tokenless
<1>7. Writers' = Writers /\ LockOK' /\ OwnerOK' /\ activeReaderCnt' = Cardinality(Rw!Readers')
  BY <1>2, <1>4, <1>6, Quiet
<1>8. blockedReaderCnt' = Cardinality(Blocked') /\ blockedReaderCnt' \in Nat /\ LockTokensOK'
  BY <1>2, <1>4, <1>6, <1>7, NoLongerBlocked
<1>9. Typed'
  BY <1>1, <1>2, <1>4, <1>8, LockSemTypes, LockSemTypesNext DEF Typed
<1> QED BY <1>5, <1>7, <1>8, <1>9 DEF LockIInv, LockCountsOK

LEMMA LockTimeOutPreserves ==
  ASSUME LockIInv, LockAssumption, NEW t \in Users, Rw!TimeOut(t)
  PROVE  LockIInv'
<1>1. Typed /\ LockWaitersOK /\ LockOK /\ OwnerOK /\ LockCountsOK /\ LockTokensOK
  BY DEF LockIInv
<1>2. Rw!Sem!TimeOut(t) /\ UNCHANGED <<activeReaderCnt, blockedReaderCnt, lockOwner, pPc, limited>>
  BY DEF Rw!TimeOut, Rw!lockVars
<1>3. /\ Rw!Sem!SpecTypeOK' /\ LockWaitersOK' /\ pAvail' = pAvail
      /\ pOutcome[t] = "timed" /\ pOutcome'[t] = "timedout"
      /\ \A u \in Users : u # t => pOutcome'[u] = pOutcome[u]
  BY <1>1, <1>2, LockTimesOut
<1>4. pPc[t] \in {"wrPend", "rdPend"} /\ pPc' = pPc
  BY <1>1, <1>2, <1>3 DEF LockWaitersOK
<1>5. /\ t \notin Writers /\ t \notin Writers' /\ t \notin Rw!Readers /\ t \notin Rw!Readers'
      /\ t \in Blocked' <=> t \in Blocked
      /\ t \notin Tokenless'
  BY <1>3, <1>4 DEF Writers, Rw!Writing, Rw!Readers, Blocked, Tokenless, Rw!Sem!Waits
<1>6. Writers' = Writers /\ LockOK' /\ OwnerOK' /\ activeReaderCnt' = Cardinality(Rw!Readers')
  BY <1>2, <1>3, <1>4, <1>5, Quiet
<1>7. blockedReaderCnt' = Cardinality(Blocked') /\ LockTokensOK'
  BY <1>2, <1>3, <1>4, <1>5, <1>6, Unblocked
<1>8. Typed'
  BY <1>1, <1>2, <1>3 DEF Typed
<1> QED BY <1>3, <1>6, <1>7, <1>8 DEF LockIInv, LockCountsOK

\* Other readers stay inside.
LEMMA ReaderLeaves ==
  ASSUME LockIInv, LockAssumption, NEW t \in Users, pPc[t] = "reading", pPc' = [pPc EXCEPT ![t] = "user"],
         activeReaderCnt > 1, activeReaderCnt' = activeReaderCnt - 1,
         UNCHANGED <<lockOwner, pAvail, pWaiting, pOutcome, blockedReaderCnt, limited>>
  PROVE  LockIInv'
<1>1. Typed /\ LockWaitersOK /\ LockOK /\ OwnerOK /\ LockCountsOK /\ LockTokensOK
  BY DEF LockIInv
<1>2. /\ pPc' \in [Users -> Rw!PCs] /\ pPc'[t] = "user" /\ "user" \in Rw!PCs
      /\ \A u \in Users : u # t => pPc'[u] = pPc[u] /\ pOutcome'[u] = pOutcome[u]
  BY <1>1, LockTypes DEF Rw!PCs
<1>3. pOutcome[t] = "idle"
  BY <1>1, LockIdleElsewhere
<1>4. LockWaitersOK'
  BY <1>1, <1>2, <1>3, LockGoes DEF LockWaitersOK
<1>5. /\ t \notin Writers /\ t \notin Writers' /\ t \in Rw!Readers /\ t \notin Rw!Readers'
      /\ t \notin Blocked /\ t \notin Blocked' /\ t \notin Tokenless /\ t \notin Tokenless'
  BY <1>2 DEF Writers, Rw!Writing, Rw!Readers, Blocked, Tokenless
<1>6. Writers' \ {t} = Writers \ {t} /\ Rw!Readers' \ {t} = Rw!Readers \ {t}
  BY <1>2, LockApart
<1>7. Cardinality(Rw!Readers') = Cardinality(Rw!Readers) - 1
  BY <1>5, <1>6, LockCounts, Resized
<1>8. Writers = {} /\ Writers' = {} /\ pAvail["sem"] = 0
  BY <1>1, <1>5, <1>6 DEF LockOK
<1>9. Rw!Readers' # {}
  <2>1. Cardinality(Rw!Readers') # 0
    BY <1>1, <1>7 DEF LockCountsOK
  <2> QED BY <2>1, FS_EmptySet
<1>10. LockOK' /\ OwnerOK'
  BY <1>1, <1>2, <1>5, <1>8, <1>9 DEF LockOK, OwnerOK
<1>11. blockedReaderCnt' = Cardinality(Blocked') /\ LockTokensOK'
  BY <1>2, <1>5, <1>8, Unblocked
<1>12. activeReaderCnt' = Cardinality(Rw!Readers') /\ activeReaderCnt' \in Nat
  BY <1>1, <1>7, CountsNext DEF LockCountsOK
<1>13. Typed'
  BY <1>1, <1>2, <1>12, LockSemTypes, LockSemTypesNext DEF Typed
<1> QED BY <1>4, <1>10, <1>11, <1>12, <1>13 DEF LockIInv, LockCountsOK

\* The last reader goes: the lock is free, or the first writer has it.
LEMMA LastReaderLeaves ==
  ASSUME LockIInv, LockAssumption, NEW t \in Users, pPc[t] = "reading", pPc' = [pPc EXCEPT ![t] = "user"],
         activeReaderCnt = 1, activeReaderCnt' = 0, lockOwner' = {}, Rw!Sem!Post("sem"),
         UNCHANGED <<blockedReaderCnt, limited>>
  PROVE  LockIInv'
<1>1. Typed /\ LockWaitersOK /\ LockOK /\ OwnerOK /\ LockCountsOK /\ LockTokensOK
  BY DEF LockIInv
<1>2. /\ pPc' \in [Users -> Rw!PCs] /\ pPc'[t] = "user"
      /\ \A u \in Users : u # t => pPc'[u] = pPc[u]
  BY <1>1, LockTypes DEF Rw!PCs
<1>3. t \in Rw!Readers /\ Writers = {} /\ pAvail["sem"] = 0
  BY <1>1 DEF LockOK, Rw!Readers
<1>4. /\ Rw!Sem!SpecTypeOK' /\ LockWaitersOK'
      /\ pAvail'["readSem"] = pAvail["readSem"]
      /\ \/ pAvail'["sem"] = 1 /\ pOutcome' = pOutcome
         \/ /\ pAvail'["sem"] = 0
            /\ \E u \in Users : /\ u # t /\ pPc[u] = "wrPend" /\ pOutcome'[u] = "granted"
                                /\ \A v \in Users : v # u => pOutcome'[v] = pOutcome[v]
  BY <1>1, <1>3, LastPosts
<1>5. Rw!Readers' = {}
  <2>1. \A u \in Users : u \in Rw!Readers' <=> u \in Rw!Readers /\ u # t
    BY <1>2 DEF Rw!Readers
  <2>2. Rw!Readers' = Rw!Readers \ {t}
    BY <2>1 DEF Rw!Readers
  <2>3. Cardinality(Rw!Readers \ {t}) = Cardinality(Rw!Readers) - 1 /\ IsFiniteSet(Rw!Readers \ {t})
    BY <1>3, LockCounts, FS_RemoveElement
  <2>4. Cardinality(Rw!Readers) = 1
    BY <1>1 DEF LockCountsOK
  <2> QED BY <2>2, <2>3, <2>4, FS_EmptySet
<1>6. Blocked' = Blocked
  BY <1>2 DEF Blocked
<1>7. Tokenless' = Tokenless
  <2>1. ASSUME NEW v \in Users PROVE pPc'[v] = "rdPend" => pPc[v] = "rdPend" /\ pOutcome'[v] = pOutcome[v]
    BY <1>2, <1>4
  <2>2. ASSUME NEW v \in Users PROVE pPc[v] = "rdPend" => pPc'[v] = "rdPend" /\ pOutcome'[v] = pOutcome[v]
    BY <1>2, <1>4
  <2> QED BY <2>1, <2>2 DEF Tokenless
<1>8. LockOK'
  <2>1. CASE pAvail'["sem"] = 1 /\ pOutcome' = pOutcome
    <3>1. \A v \in Users : v \notin Writers'
      BY <2>1, <1>2, <1>3 DEF Writers, Rw!Writing
    <3>2. Writers' = {}
      BY <3>1 DEF Writers
    <3> QED BY <3>2, <2>1, <1>5 DEF LockOK
  <2>2. CASE pAvail'["sem"] = 0 /\ \E u \in Users : /\ u # t /\ pPc[u] = "wrPend" /\ pOutcome'[u] = "granted"
                                                    /\ \A v \in Users : v # u => pOutcome'[v] = pOutcome[v]
    <3>1. PICK u \in Users : /\ u # t /\ pPc[u] = "wrPend" /\ pOutcome'[u] = "granted"
                             /\ \A v \in Users : v # u => pOutcome'[v] = pOutcome[v]
      BY <2>2
    <3>2. \A v \in Users : v \in Writers' <=> v = u
      BY <3>1, <1>2, <1>3 DEF Writers, Rw!Writing
    <3>3. Writers' = {u}
      BY <3>2 DEF Writers
    <3> QED BY <3>3, <2>2, <1>5 DEF LockOK
  <2> QED BY <1>4, <2>1, <2>2
<1>9. OwnerOK'
  <2>1. \A v \in Users : pPc[v] # "writing"
    BY <1>3 DEF Writers, Rw!Writing
  <2>2. \A v \in Users : pPc'[v] # "writing"
    BY <2>1, <1>2
  <2> QED BY <2>2, <1>5 DEF OwnerOK
<1>10. LockTokensOK'
  BY <1>1, <1>3, <1>4, <1>7 DEF LockTokensOK
<1>11. LockCountsOK'
  BY <1>1, <1>5, <1>6, FS_EmptySet DEF LockCountsOK
<1>12. Typed'
  BY <1>1, <1>2, <1>4 DEF Typed
<1> QED BY <1>4, <1>8, <1>9, <1>10, <1>11, <1>12 DEF LockIInv

\* The writer goes: the first writer that waits has the lock, or it is free, and
\* every blocked reader has a token or finds one.
LEMMA WriterLeaves ==
  ASSUME LockIInv, LockAssumption, NEW t \in Users, pPc[t] = "writing", pPc' = [pPc EXCEPT ![t] = "user"],
         lockOwner' = {}, Rw!PostEach(Rw!Released), UNCHANGED <<activeReaderCnt, blockedReaderCnt, limited>>
  PROVE  LockIInv'
<1> DEFINE n == Rw!Released
<1>1. Typed /\ LockWaitersOK /\ LockOK /\ OwnerOK /\ LockCountsOK /\ LockTokensOK
  BY DEF LockIInv
<1>2. /\ pPc' \in [Users -> Rw!PCs] /\ pPc'[t] = "user"
      /\ \A u \in Users : u # t => pPc'[u] = pPc[u]
  BY <1>1, LockTypes DEF Rw!PCs
<1>3. n \in [Rw!LockSems -> Nat] /\ n["sem"] = 1 /\ n["readSem"] = blockedReaderCnt
  BY <1>1, LockTypes, LockSemNames DEF Rw!Released
<1>4. t \in Writers /\ Rw!Readers = {} /\ pAvail["sem"] = 0 /\ \A u \in Writers : u = t
  BY <1>1 DEF LockOK, Writers, Rw!Writing
<1> HIDE DEF n
<1>5. /\ Rw!Sem!SpecTypeOK' /\ LockWaitersOK'
      /\ \A s \in Rw!LockSems : /\ Cardinality(Fed(s, n)) \in 0 .. n[s] /\ IsFiniteSet(Fed(s, n))
                         /\ pAvail'[s] = pAvail[s] + n[s] - Cardinality(Fed(s, n))
                         /\ \A u \in Fed(s, n) : pOutcome[u] \in Rw!Sem!Waits /\ pPc[u] = LockCaller(s)
      /\ \A u \in Users : pOutcome'[u] = IF u \in Fed("sem", n) \cup Fed("readSem", n)
                                         THEN "granted" ELSE pOutcome[u]
  <2>1. Rw!PostEach(n)
    BY DEF n
  <2> QED BY <2>1, <1>1, <1>3, EachPosts
<1>6. /\ \A u \in Fed("sem", n) : u \in Users /\ pPc[u] = "wrPend"
      /\ \A u \in Fed("readSem", n) : u \in Users /\ pPc[u] = "rdPend" /\ pOutcome[u] \in Rw!Sem!Waits
  BY <1>5, LockSemNames DEF LockCaller, Fed
<1>7. Rw!Readers' = {}
  BY <1>2, <1>4 DEF Rw!Readers
<1>8. Blocked' = Blocked
  BY <1>2 DEF Blocked
<1>9. Writers' = Fed("sem", n)
  <2>1. ASSUME NEW u \in Users PROVE u \in Writers' <=> u \in Fed("sem", n)
    <3>1. CASE u \in Fed("sem", n)
      BY <3>1, <1>2, <1>5, <1>6 DEF Writers, Rw!Writing
    <3>2. CASE u \in Fed("readSem", n)
      <4>1. pPc'[u] = "rdPend" /\ pPc[u] = "rdPend"
        BY <3>2, <1>2, <1>6
      <4> QED BY <4>1, <1>6 DEF Writers, Rw!Writing
    <3>3. CASE u \notin Fed("sem", n) /\ u \notin Fed("readSem", n)
      <4>1. pOutcome'[u] = pOutcome[u]
        BY <3>3, <1>5
      <4> QED BY <4>1, <3>3, <1>2, <1>4 DEF Writers, Rw!Writing
    <3> QED BY <3>1, <3>2, <3>3
  <2> QED BY <2>1, <1>6 DEF Writers
<1>10. LockOK'
  <2>1. /\ Cardinality(Fed("sem", n)) \in 0 .. 1 /\ IsFiniteSet(Fed("sem", n))
        /\ pAvail'["sem"] = 1 - Cardinality(Fed("sem", n))
    BY <1>3, <1>4, <1>5, LockSemNames
  <2>2. CASE Cardinality(Fed("sem", n)) = 0
    <3>1. Fed("sem", n) = {}
      BY <2>1, <2>2, FS_EmptySet
    <3> QED BY <3>1, <2>1, <2>2, <1>7, <1>9 DEF LockOK
  <2>3. CASE Cardinality(Fed("sem", n)) = 1
    <3>1. PICK u : Fed("sem", n) = {u}
      BY <2>1, <2>3, FS_Singleton
    <3> QED BY <3>1, <2>1, <2>3, <1>7, <1>9 DEF LockOK
  <2> QED BY <2>1, <2>2, <2>3
<1>11. OwnerOK'
  <2>1. \A v \in Users : pPc[v] = "writing" => v = t
    BY <1>4 DEF Writers, Rw!Writing
  <2>2. \A v \in Users : pPc'[v] # "writing"
    BY <2>1, <1>2
  <2> QED BY <2>2, <1>7 DEF OwnerOK
<1>12. LockTokensOK'
  <2> DEFINE F == Fed("readSem", n)
  <2>1. F \subseteq Tokenless
    BY <1>6 DEF Tokenless
  <2>2. Tokenless' = Tokenless \ F
    <3>1. ASSUME NEW u \in Users PROVE u \in Tokenless' <=> u \in Tokenless /\ u \notin F
      <4>1. CASE u \in F
        <5>1. pOutcome'[u] = "granted"
          BY <4>1, <1>5
        <5> QED BY <5>1, <4>1 DEF Tokenless, Rw!Sem!Waits
      <4>2. CASE u \notin F /\ u \in Fed("sem", n)
        <5>1. pPc[u] = "wrPend" /\ pPc'[u] = "wrPend"
          BY <4>2, <1>2, <1>6
        <5> QED BY <5>1 DEF Tokenless
      <4>3. CASE u \notin F /\ u \notin Fed("sem", n)
        <5>1. pOutcome'[u] = pOutcome[u]
          BY <4>3, <1>5
        <5>2. pPc'[u] = "rdPend" <=> pPc[u] = "rdPend"
          BY <1>2
        <5> QED BY <5>1, <5>2, <4>3 DEF Tokenless
      <4> QED BY <4>1, <4>2, <4>3
    <3> QED BY <3>1, <2>1 DEF Tokenless
  <2> HIDE DEF F
  <2>3. Cardinality(Tokenless') = Cardinality(Tokenless) - Cardinality(F)
    <3>1. Tokenless \cap F = F
      BY <2>1
    <3>2. Cardinality(Tokenless \ F) = Cardinality(Tokenless) - Cardinality(Tokenless \cap F)
      BY LockCounts, FS_Difference
    <3> QED BY <3>1, <3>2, <2>2
  <2>4. Cardinality(Tokenless) <= Cardinality(Blocked)
    <3>1. Tokenless \subseteq Blocked
      BY DEF Tokenless, Blocked
    <3> QED BY <3>1, LockCounts, FS_Subset
  <2>5. pAvail'["readSem"] = pAvail["readSem"] + Cardinality(Blocked) - Cardinality(F)
    BY <1>1, <1>3, <1>5, LockSemNames DEF LockCountsOK, F
  <2>6. pAvail["readSem"] \in Nat /\ Cardinality(F) \in Nat
    BY <1>1, <1>5, LockTypes, LockSemNames DEF F
  <2> QED BY <2>3, <2>4, <2>5, <2>6, LockCounts DEF LockTokensOK
<1>13. LockCountsOK'
  BY <1>1, <1>4, <1>7, <1>8 DEF LockCountsOK
<1>14. Typed'
  BY <1>1, <1>2, <1>5 DEF Typed
<1> QED BY <1>5, <1>10, <1>11, <1>12, <1>13, <1>14 DEF LockIInv

LEMMA UnlockPreserves ==
  ASSUME LockIInv, LockAssumption, NEW t \in Users, Rw!Unlock(t)
  PROVE  LockIInv'
<1>1. pPc[t] \in {"reading", "writing"} /\ pPc' = [pPc EXCEPT ![t] = "user"]
      /\ UNCHANGED <<blockedReaderCnt, limited>>
  BY DEF Rw!Unlock, Rw!Goto
<1>2. activeReaderCnt \in Nat /\ activeReaderCnt = Cardinality(Rw!Readers)
  BY DEF LockIInv, Typed, LockCountsOK
<1>3. activeReaderCnt > 0 <=> pPc[t] = "reading"
  <2>1. pPc[t] = "reading" => Rw!Readers # {}
    BY DEF Rw!Readers
  <2>2. pPc[t] = "writing" => Rw!Readers = {}
    BY DEF LockIInv, LockOK, Writers, Rw!Writing
  <2> QED BY <2>1, <2>2, <1>1, <1>2, LockCounts
<1>4. CASE activeReaderCnt > 1
  <2>1. /\ activeReaderCnt' = activeReaderCnt - 1
        /\ UNCHANGED <<lockOwner, pAvail, pWaiting, pOutcome, blockedReaderCnt, limited>>
    BY <1>1, <1>2, <1>4 DEF Rw!Unlock, Rw!semVars
  <2>2. pPc[t] = "reading"
    BY <1>2, <1>3, <1>4
  <2> QED BY <2>1, <2>2, <1>1, <1>4, ReaderLeaves
<1>5. CASE activeReaderCnt = 1
  <2>1. activeReaderCnt' = 0 /\ lockOwner' = {} /\ Rw!Sem!Post("sem")
    BY <1>5 DEF Rw!Unlock
  <2>2. pPc[t] = "reading"
    BY <1>3, <1>5
  <2> QED BY <2>1, <2>2, <1>1, <1>5, LastReaderLeaves
<1>6. CASE activeReaderCnt = 0
  <2>1. /\ lockOwner' = {} /\ Rw!PostEach(Rw!Released)
        /\ UNCHANGED <<activeReaderCnt, blockedReaderCnt, limited>>
    BY <1>1, <1>6 DEF Rw!Unlock
  <2>2. pPc[t] = "writing"
    BY <1>1, <1>3, <1>6
  <2> QED BY <2>1, <2>2, <1>1, WriterLeaves
<1> QED BY <1>2, <1>4, <1>5, <1>6

-----------------------------------------------------------------------------
(* The theorems of the read-write lock.                                    *)

LEMMA LockInitIInv ==
  ASSUME LockAssumption, Rw!Init
  PROVE  LockIInv
<1>1. /\ pAvail = [s \in Rw!LockSems |-> IF s = "sem" THEN 1 ELSE 0]
      /\ pWaiting = [s \in Rw!LockSems |-> <<>>] /\ pOutcome = [t \in Users |-> "idle"]
      /\ activeReaderCnt = 0 /\ blockedReaderCnt = 0 /\ lockOwner = {}
      /\ pPc = [t \in Users |-> "user"] /\ limited = {}
  BY DEF Rw!Init, Rw!Sem!Init
<1>2. Writers = {} /\ Rw!Readers = {} /\ Blocked = {} /\ Tokenless = {}
  BY <1>1 DEF Writers, Rw!Writing, Rw!Readers, Blocked, Tokenless
<1>3. Cardinality({}) = 0
  BY FS_EmptySet
<1>4. pAvail["sem"] = 1 /\ pAvail["readSem"] = 0
  BY <1>1, LockSemNames
<1>5. Typed
  <2>1. pAvail \in [Rw!LockSems -> 0 .. LockLimit - 1]
    BY <1>1 DEF LockAssumption
  <2>2. pWaiting \in [Rw!LockSems -> Seq(Users)] /\ pOutcome \in [Users -> Rw!Sem!Outcomes] /\ pPc \in [Users -> Rw!PCs]
    BY <1>1 DEF Rw!Sem!Outcomes, Rw!PCs
  <2> QED BY <2>1, <2>2, <1>1, LockSemTypes DEF Typed
<1>6. LockWaitersOK
  <2>1. \A s \in Rw!LockSems, t \in Users : ~Contains(pWaiting[s], t) /\ pOutcome[t] \notin Rw!Sem!Waits
    BY <1>1 DEF Contains, Rw!Sem!Waits
  <2> QED BY <2>1, <1>1 DEF LockWaitersOK, IsInjective
<1>7. LockOK /\ LockCountsOK /\ OwnerOK /\ LockTokensOK
  BY <1>1, <1>2, <1>3, <1>4 DEF LockOK, LockCountsOK, OwnerOK, LockTokensOK
<1> QED BY <1>5, <1>6, <1>7 DEF LockIInv

LEMMA LockNextIInv ==
  ASSUME LockAssumption, LockIInv, [Rw!Next]_(Rw!vars)
  PROVE  LockIInv'
<1>1. CASE Rw!Next
  BY <1>1, WrCallPreserves, WrPendPreserves, WrTakenPreserves, RdAcquirePreserves, RdPendPreserves,
     RdTryPreserves, RdTimedOutPreserves, UnlockPreserves, LockTimeOutPreserves DEF Rw!Next
<1>2. CASE UNCHANGED Rw!vars
  <2>1. UNCHANGED <<pAvail, pWaiting, pOutcome, activeReaderCnt, blockedReaderCnt, lockOwner, pPc, limited>>
    BY <1>2 DEF Rw!vars, Rw!semVars, Rw!lockVars
  <2>2. /\ Writers' = Writers /\ Rw!Readers' = Rw!Readers /\ Blocked' = Blocked /\ Tokenless' = Tokenless
    BY <2>1 DEF Writers, Rw!Writing, Rw!Readers, Blocked, Tokenless
  <2>3. Typed'
    BY <2>1, LockSemTypes, LockSemTypesNext DEF LockIInv, Typed
  <2> QED BY <2>1, <2>2, <2>3 DEF LockIInv, LockWaitersOK, LockOK, LockCountsOK, OwnerOK, LockTokensOK
<1> QED BY <1>1, <1>2

LEMMA IInvExcludes ==
  ASSUME LockAssumption, LockIInv
  PROVE  Rw!RwExclusion
<1>1. Typed /\ LockOK /\ LockCountsOK /\ OwnerOK
  BY DEF LockIInv
<1>2. Rw!TypeOK
  <2>1. Cardinality(Rw!Readers) <= Cardinality(Users) /\ Cardinality(Blocked) <= Cardinality(Users)
    <3>1. Rw!Readers \in SUBSET Users /\ Blocked \in SUBSET Users
      BY DEF Rw!Readers, Blocked
    <3> QED BY <3>1, FS_Subset DEF LockAssumption
  <2>2. activeReaderCnt \in 0 .. Cardinality(Users) /\ blockedReaderCnt \in 0 .. Cardinality(Users)
    BY <2>1, <1>1, FS_CardinalityType DEF LockCountsOK, Typed, LockAssumption
  <2>3. lockOwner \in SUBSET Users /\ Cardinality(lockOwner) <= 1
    <3>1. CASE lockOwner = {}
      BY <3>1, FS_EmptySet
    <3>2. ASSUME NEW t \in Users, lockOwner = {t} PROVE lockOwner \in SUBSET Users /\ Cardinality(lockOwner) <= 1
      <4>1. Cardinality({t}) = 1
        BY FS_Singleton
      <4> QED BY <3>2, <4>1
    <3> QED BY <3>1, <3>2, <1>1 DEF OwnerOK
  <2> QED BY <2>2, <2>3, <1>1, LockOperators DEF Rw!TypeOK, Typed
<1>3. Cardinality(Writers) + Min({1, Cardinality(Rw!Readers)}) + pAvail["sem"] = 1
  <2> DEFINE m == Min({1, Cardinality(Rw!Readers)})
  <2>1. m \in Nat /\ m <= 1 /\ m <= Cardinality(Rw!Readers) /\ (m = 1 \/ m = Cardinality(Rw!Readers))
    BY LockCounts, MinOfTwo
  <2> HIDE DEF m
  <2>2. Rw!Readers = {} => m = 0
    BY <2>1, LockCounts
  <2>3. Rw!Readers # {} => m = 1
    BY <2>1, LockCounts
  <2>4. Writers = {} => Cardinality(Writers) = 0
    BY FS_EmptySet
  <2>5. Writers # {} => Cardinality(Writers) = 1
    <3> SUFFICES ASSUME NEW u \in Writers PROVE Cardinality(Writers) = 1
      OBVIOUS
    <3>1. Writers = {u}
      BY <1>1 DEF LockOK
    <3> QED BY <3>1, FS_Singleton
  <2> QED BY <2>2, <2>3, <2>4, <2>5, <1>1 DEF LockOK, m
<1> QED BY <1>1, <1>2, <1>3, LockOperators DEF Rw!RwExclusion, Writers, LockCountsOK, OwnerOK

LEMMA IInvWakes ==
  ASSUME LockAssumption, LockIInv
  PROVE  Rw!ReadersWoken
<1>1. pAvail["readSem"] \in Nat /\ Cardinality(Tokenless) \in Nat
  BY LockTypes, LockSemNames, LockCounts DEF LockIInv
<1>2. Cardinality(Tokenless) > pAvail["readSem"] => Writers # {}
  BY <1>1 DEF LockIInv, LockTokensOK
<1>3. Writers # {} => \E t \in Users : Rw!Writing(t)
  BY DEF Writers
<1> QED BY <1>2, <1>3, LockOperators DEF Rw!ReadersWoken, Tokenless

\* The typed state of the lock, its semaphores' waiting lists and its counts agree,
\* whichever of the lock's calls the threads are in (pthread_rwlock.c:110-420).
THEOREM RwInvariance == ASSUME LockAssumption PROVE Rw!Spec => []LockIInv
<1>1. Rw!Init => LockIInv
  BY LockInitIInv
<1>2. LockIInv /\ [Rw!Next]_(Rw!vars) => LockIInv'
  BY LockNextIInv
<1> QED BY <1>1, <1>2, PTL DEF Rw!Spec

-----------------------------------------------------------------------------
(* The barrier: the inductive invariant, and that every step keeps it.      *)

sem == "sem"

\* The list of the semaphore and what its waiters wait for agree, and nobody
\* waits for a token that is there.
RoundQueueOK ==
  /\ IsInjective(pWaiting[sem])
  /\ \A t \in Rounders : pOutcome[t] = "forever" <=> Contains(pWaiting[sem], t)
  /\ pWaiting[sem] # <<>> => pAvail[sem] = 0

\* Only a thread in its pend waits or has been handed a token.
RoundWaitsOK ==
  \A t \in Rounders : /\ pOutcome[t] \in {"idle", "forever", "granted"}
                     /\ pOutcome[t] # "idle" => pPc[t] = "pend"

TokensCounted == Cardinality(Bar!Pending) = pendCount + pAvail[sem] + Cardinality(Bar!Handed)

\* Bar!TypeOK, of the one semaphore.
RoundTyped ==
  /\ pAvail \in [{sem} -> 0 .. Cardinality(Rounders)]
  /\ pWaiting \in [{sem} -> Seq(Rounders)]
  /\ pOutcome \in [Rounders -> Bar!Sem!Outcomes]
  /\ pendCount \in 0 .. Count - 1
  /\ pPc \in [Rounders -> {"user", "pend"}]

RoundIInv == RoundTyped /\ RoundQueueOK /\ RoundWaitsOK /\ TokensCounted

\* The operators that PthreadBarrier takes from the library are those used here.
LEMMA SameOperators ==
  /\ \A S : Bar!Cardinality(S) = Cardinality(S)
  /\ \A S : Bar!Min(S) = Min(S)
  /\ \A q, x : Bar!Contains(q, x) <=> Contains(q, x)
  BY DEF Bar!Cardinality, Cardinality, Bar!Min, Min, Bar!Contains, Contains

LEMMA RoundTypes ==
  ASSUME RoundTyped
  PROVE  /\ pAvail \in [{sem} -> Int] /\ pAvail[sem] \in Nat
         /\ pWaiting \in [{sem} -> Seq(Rounders)] /\ pWaiting[sem] \in Seq(Rounders)
         /\ pOutcome \in [Rounders -> Bar!Sem!Outcomes]
         /\ pendCount \in Nat
         /\ pPc \in [Rounders -> {"user", "pend"}]
  BY DEF RoundTyped

LEMMA RoundTypeOK ==
  ASSUME IsFiniteSet(Rounders), RoundTyped
  PROVE  Bar!TypeOK
<1>1. Bar!BarrierSems = {sem} /\ (Cardinality(Rounders) + 1) - 1 = Cardinality(Rounders)
  BY FS_CardinalityType DEF Bar!BarrierSems, sem
<1>2. Bar!Cardinality(Rounders) = Cardinality(Rounders)
  BY SameOperators
<1> QED BY <1>1, <1>2 DEF RoundTyped, Bar!TypeOK, Bar!Sem!SpecTypeOK

LEMMA FinitelyMany ==
  ASSUME IsFiniteSet(Rounders)
  PROVE  /\ IsFiniteSet(Bar!Pending) /\ Cardinality(Bar!Pending) \in Nat
         /\ IsFiniteSet(Bar!Handed) /\ Cardinality(Bar!Handed) \in Nat
         /\ Cardinality(Bar!Pending) <= Cardinality(Rounders)
         /\ Cardinality(Rounders) \in Nat
<1>1. Bar!Pending \in SUBSET Rounders /\ Bar!Handed \in SUBSET Rounders
  BY DEF Bar!Pending, Bar!Handed
<1> QED BY <1>1, FS_Subset, FS_CardinalityType

\* The counts that Bar!TypeOK bounds follow from the number of threads.
LEMMA CountsBounded ==
  ASSUME IsFiniteSet(Rounders), pAvail[sem] \in Nat, pendCount \in Nat, TokensCounted
  PROVE  pAvail[sem] \in 0 .. Cardinality(Rounders)
  BY FinitelyMany DEF TokensCounted

LEMMA RoundInit ==
  ASSUME IsFiniteSet(Rounders), Count \in Nat \ {0}, Bar!Init
  PROVE  RoundIInv
<1>1. Bar!BarrierSems = {sem} /\ sem \in Bar!BarrierSems
  BY DEF Bar!BarrierSems, sem
<1>2. /\ pAvail = [s \in Bar!BarrierSems |-> 0] /\ pWaiting = [s \in Bar!BarrierSems |-> <<>>]
      /\ pOutcome = [t \in Rounders |-> "idle"] /\ pendCount = 0
      /\ pPc = [t \in Rounders |-> "user"]
  BY DEF Bar!Init, Bar!Sem!Init
<1>3. Bar!Pending = {} /\ Bar!Handed = {}
  BY <1>2 DEF Bar!Pending, Bar!Handed
<1>4. Cardinality({}) = 0 /\ Cardinality(Rounders) \in Nat
  BY FS_EmptySet, FS_CardinalityType
<1>5. RoundTyped
  BY <1>1, <1>2, <1>4 DEF RoundTyped, Bar!Sem!Outcomes
<1>6. RoundQueueOK
  BY <1>1, <1>2 DEF RoundQueueOK, IsInjective, Contains
<1>7. RoundWaitsOK
  BY <1>2 DEF RoundWaitsOK
<1>8. TokensCounted
  BY <1>1, <1>2, <1>3, <1>4 DEF TokensCounted
<1> QED BY <1>5, <1>6, <1>7, <1>8 DEF RoundIInv

LEMMA ArrivePreserves ==
  ASSUME IsFiniteSet(Rounders), Count \in Nat \ {0}, RoundIInv, NEW t \in Rounders, Bar!Arrive(t)
  PROVE  RoundIInv'
<1>1. /\ pPc[t] = "user" /\ pPc' = [pPc EXCEPT ![t] = "pend"]
      /\ pendCount' = pendCount + 1 /\ pendCount + 1 < Count
      /\ UNCHANGED <<pAvail, pWaiting, pOutcome>>
  BY DEF Bar!Arrive, Bar!At, Bar!Goto, Bar!semVars
<1>2. RoundTyped /\ RoundQueueOK /\ RoundWaitsOK /\ TokensCounted
  BY DEF RoundIInv
<1>3. RoundTyped'
  BY <1>1, <1>2, RoundTypes DEF RoundTyped
<1>4. RoundQueueOK'
  BY <1>1, <1>2 DEF RoundQueueOK
<1>5. RoundWaitsOK'
  BY <1>1, <1>2, RoundTypes DEF RoundWaitsOK
<1>6. TokensCounted'
  <2>1. Bar!Pending' = Bar!Pending \cup {t} /\ t \notin Bar!Pending /\ Bar!Handed' = Bar!Handed
    BY <1>1, <1>2, RoundTypes DEF Bar!Pending, Bar!Handed
  <2>2. Cardinality(Bar!Pending') = Cardinality(Bar!Pending) + 1
    BY <2>1, FinitelyMany, FS_AddElement
  <2> QED BY <2>1, <2>2, <1>1, <1>2, RoundTypes, FinitelyMany DEF TokensCounted
<1> QED BY <1>3, <1>4, <1>5, <1>6 DEF RoundIInv

\* The first waiters are handed tokens, the others are counted; no thread leaves.
LEMMA ArriveLastPreserves ==
  ASSUME IsFiniteSet(Rounders), Count \in Nat \ {0}, RoundIInv, NEW t \in Rounders, Bar!ArriveLast(t)
  PROVE  RoundIInv'
<1> DEFINE w == pWaiting[sem]
           n == Bar!Others
           k == Min({n, Len(w)})
           h == SubSeq(w, 1, k)
           r == SubSeq(w, k + 1, Len(w))
<1>1. RoundTyped /\ RoundQueueOK /\ RoundWaitsOK /\ TokensCounted
  BY DEF RoundIInv
<1>2. /\ pendCount + 1 >= Count /\ pendCount \in 0 .. Count - 1
      /\ pendCount' = 0 /\ pPc' = pPc
  BY <1>1 DEF Bar!ArriveLast, RoundTyped
<1>3. n \in Nat /\ n = pendCount
  BY <1>2 DEF Bar!Others
<1>4. w \in Seq(Rounders) /\ Len(w) \in Nat /\ IsInjective(w)
  BY <1>1, RoundTypes DEF RoundQueueOK
<1>5. k \in 0 .. Len(w) /\ k <= n /\ (k = n \/ k = Len(w))
  BY <1>3, <1>4, MinOfTwo
<1>6. Bar!PostTimes(n)
  BY DEF Bar!ArriveLast
<1>7. /\ Len(h) = k
      /\ r \in Seq(Rounders) /\ Len(r) = Len(w) - k /\ IsInjective(r)
      /\ \A u : Contains(w, u) <=> Contains(h, u) \/ Contains(r, u)
      /\ \A u : ~(Contains(h, u) /\ Contains(r, u))
      /\ IsFiniteSet({u \in Rounders : Contains(h, u)})
      /\ Cardinality({u \in Rounders : Contains(h, u)}) = k
  <2> HIDE DEF w, k
  <2> QED BY <1>4, <1>5, Parted, ZenonT(30)
<1>8. /\ pWaiting' = [pWaiting EXCEPT ![sem] = SubSeq(@, Len(h) + 1, Len(@))]
      /\ pOutcome' = [u \in Rounders |-> IF Contains(h, u) THEN "granted" ELSE pOutcome[u]]
      /\ pAvail' = [pAvail EXCEPT ![sem] = @ + n - Len(h)]
  BY <1>6, SameOperators DEF Bar!PostTimes, sem
<1> HIDE DEF h, k, n
<1>9. /\ pWaiting' \in [{sem} -> Seq(Rounders)] /\ pWaiting'[sem] = r
      /\ pAvail' \in [{sem} -> Int] /\ pAvail'[sem] = pAvail[sem] + n - k
      /\ pAvail'[sem] \in Nat
  <2>1. pWaiting' = [pWaiting EXCEPT ![sem] = r]
    BY <1>7, <1>8
  <2> HIDE DEF r, w
  <2> QED BY <2>1, <1>1, <1>3, <1>5, <1>7, <1>8, RoundTypes
<1> HIDE DEF r, w
<1>10. RoundWaitsOK'
  <2>1. \A u \in Rounders : Contains(h, u) => pPc[u] = "pend"
    BY <1>1, <1>7 DEF RoundWaitsOK, RoundQueueOK, w
  <2> QED BY <2>1, <1>1, <1>2, <1>8 DEF RoundWaitsOK
<1>11. RoundQueueOK'
  <2>1. \A u \in Rounders : pOutcome'[u] = "forever" <=> Contains(r, u)
    BY <1>1, <1>7, <1>8 DEF RoundQueueOK, w
  <2>2. r # <<>> => pAvail'[sem] = 0
    <3> SUFFICES ASSUME r # <<>> PROVE pAvail'[sem] = 0
      OBVIOUS
    <3>1. Len(r) # 0
      BY <1>7
    <3>2. k = n /\ k # Len(w)
      BY <3>1, <1>4, <1>5, <1>7
    <3>3. w # <<>>
      BY <3>2, <1>3, <1>4, <1>5
    <3>4. pAvail[sem] = 0
      BY <3>3, <1>1 DEF RoundQueueOK, w
    <3> QED BY <3>2, <3>4, <1>3, <1>9
  <2> QED BY <2>1, <2>2, <1>7, <1>9 DEF RoundQueueOK
<1>12. TokensCounted'
  <2> DEFINE H == {u \in Rounders : Contains(h, u)}
  <2>1. Bar!Pending' = Bar!Pending
    BY <1>2 DEF Bar!Pending
  <2>2. Bar!Handed' = Bar!Handed \cup H
    BY <1>8 DEF Bar!Handed
  <2>3. Bar!Handed \cap H = {}
    BY <1>1, <1>7 DEF Bar!Handed, RoundQueueOK, w
  <2> HIDE DEF H
  <2>4. Cardinality(Bar!Handed') = Cardinality(Bar!Handed) + k
    <3>1. IsFiniteSet(H) /\ Cardinality(H) = k /\ k \in Nat
      BY <1>4, <1>5, <1>7 DEF H
    <3>2. Cardinality(Bar!Handed \cup H) = Cardinality(Bar!Handed) + Cardinality(H) - Cardinality(Bar!Handed \cap H)
      BY <3>1, FinitelyMany, FS_Union
    <3>3. Cardinality(Bar!Handed \cap H) = 0
      BY <2>3, FS_EmptySet
    <3> QED BY <3>1, <3>2, <3>3, <2>2, FinitelyMany
  <2>5. Cardinality(Bar!Pending) = pendCount + pAvail[sem] + Cardinality(Bar!Handed)
    BY <1>1 DEF TokensCounted
  <2> QED BY <2>1, <2>4, <2>5, <1>2, <1>3, <1>4, <1>5, <1>9, <1>1, RoundTypes, FinitelyMany DEF TokensCounted
<1>13. RoundTyped'
  <2>1. pAvail'[sem] \in 0 .. Cardinality(Rounders)
    <3>1. IsFiniteSet(Bar!Pending') /\ Cardinality(Bar!Pending') <= Cardinality(Rounders) /\ Cardinality(Bar!Pending') \in Nat
          /\ Cardinality(Bar!Handed') \in Nat
      <4>1. Bar!Pending' \in SUBSET Rounders /\ Bar!Handed' \in SUBSET Rounders
        BY DEF Bar!Pending, Bar!Handed
      <4> QED BY <4>1, FS_Subset, FS_CardinalityType
    <3> QED BY <3>1, <1>2, <1>9, <1>12, FinitelyMany DEF TokensCounted
  <2>2. pOutcome' \in [Rounders -> Bar!Sem!Outcomes]
    BY <1>1, <1>8, RoundTypes DEF Bar!Sem!Outcomes
  <2>3. Bar!BarrierSems = {sem}
    BY DEF Bar!BarrierSems, sem
  <2>4. pAvail' \in [{sem} -> 0 .. Cardinality(Rounders)] /\ pWaiting' \in [{sem} -> Seq(Rounders)]
    BY <2>1, <2>3, <1>9
  <2>5. pendCount' \in 0 .. Count - 1 /\ pPc' \in [Rounders -> {"user", "pend"}]
    BY <1>1, <1>2, RoundTypes
  <2> QED BY <2>2, <2>4, <2>5, Zenon DEF RoundTyped
<1> QED BY <1>10, <1>11, <1>12, <1>13 DEF RoundIInv

\* A thread takes a token, returns with the one it was handed, or waits.
LEMMA RoundPendPreserves ==
  ASSUME IsFiniteSet(Rounders), Count \in Nat \ {0}, RoundIInv, NEW t \in Rounders, Bar!Pend(t)
  PROVE  RoundIInv'
<1>1. RoundTyped /\ RoundQueueOK /\ RoundWaitsOK /\ TokensCounted
  BY DEF RoundIInv
<1>2. pPc[t] = "pend" /\ pendCount' = pendCount /\ t \in Bar!Pending
  BY DEF Bar!Pend, Bar!At, Bar!Pending
<1>3. Cardinality(Bar!Pending \ {t}) = Cardinality(Bar!Pending) - 1
  BY <1>2, FinitelyMany, FS_RemoveElement
<1>4. CASE pOutcome[t] = "idle" /\ Bar!Sem!Take(sem) /\ pPc' = [pPc EXCEPT ![t] = "user"]
  <2>1. /\ pWaiting' = pWaiting /\ pOutcome' = pOutcome
        /\ pAvail[sem] > 0 /\ pAvail' = [pAvail EXCEPT ![sem] = @ - 1]
    BY <1>4 DEF Bar!Sem!Take
  <2>2. /\ pAvail' \in [{sem} -> Int] /\ pAvail'[sem] = pAvail[sem] - 1
        /\ pAvail'[sem] \in 0 .. Cardinality(Rounders)
    BY <2>1, <1>1, RoundTypes, CountsBounded, FinitelyMany
  <2>3. RoundTyped'
    <3>1. Bar!BarrierSems = {sem}
      BY DEF Bar!BarrierSems, sem
    <3>2. pAvail' \in [{sem} -> 0 .. Cardinality(Rounders)]
      BY <2>2, <3>1
    <3>3. /\ pWaiting' \in [{sem} -> Seq(Rounders)] /\ pOutcome' \in [Rounders -> Bar!Sem!Outcomes]
          /\ pendCount' \in 0 .. Count - 1 /\ pPc' \in [Rounders -> {"user", "pend"}]
      BY <2>1, <1>1, <1>2, <1>4 DEF RoundTyped
    <3> QED BY <3>2, <3>3, Zenon DEF RoundTyped
  <2>4. RoundQueueOK'
    BY <2>1, <1>1 DEF RoundQueueOK
  <2>5. RoundWaitsOK'
    BY <2>1, <1>1, <1>4, RoundTypes DEF RoundWaitsOK
  <2>6. Bar!Pending' = Bar!Pending \ {t} /\ Bar!Handed' = Bar!Handed
    BY <2>1, <1>1, <1>4, RoundTypes DEF Bar!Pending, Bar!Handed
  <2>7. TokensCounted'
    BY <2>2, <2>6, <1>1, <1>2, <1>3, RoundTypes, FinitelyMany DEF TokensCounted
  <2> QED BY <2>3, <2>4, <2>5, <2>7 DEF RoundIInv
<1>5. CASE pOutcome[t] = "granted" /\ Bar!Sem!Return(t) /\ pPc' = [pPc EXCEPT ![t] = "user"]
  <2>1. pAvail' = pAvail /\ pWaiting' = pWaiting /\ pOutcome' = [pOutcome EXCEPT ![t] = "idle"]
    BY <1>5 DEF Bar!Sem!Return
  <2>2. RoundTyped'
    BY <2>1, <1>1, <1>2, <1>5, RoundTypes DEF RoundTyped, Bar!Sem!Outcomes
  <2>3. RoundQueueOK'
    BY <2>1, <1>1, <1>5, RoundTypes DEF RoundQueueOK
  <2>4. RoundWaitsOK'
    BY <2>1, <1>1, <1>5, RoundTypes DEF RoundWaitsOK
  <2>5. Bar!Pending' = Bar!Pending \ {t} /\ Bar!Handed' = Bar!Handed \ {t} /\ t \in Bar!Handed
    BY <2>1, <1>1, <1>5, RoundTypes DEF Bar!Pending, Bar!Handed
  <2>6. Cardinality(Bar!Handed \ {t}) = Cardinality(Bar!Handed) - 1
    BY <2>5, FinitelyMany, FS_RemoveElement
  <2>7. TokensCounted'
    BY <2>1, <2>5, <2>6, <1>1, <1>2, <1>3, RoundTypes, FinitelyMany DEF TokensCounted
  <2> QED BY <2>2, <2>3, <2>4, <2>7 DEF RoundIInv
<1>6. CASE Bar!Sem!Wait(t, sem, "forever") /\ UNCHANGED pPc
  <2> DEFINE w == pWaiting[sem]
             z == Append(w, t)
  <2>1. w \in Seq(Rounders) /\ IsInjective(w)
    BY <1>1, RoundTypes DEF RoundQueueOK
  <2>2. pOutcome[t] = "idle" /\ pAvail[sem] = 0 /\ pAvail' = pAvail
        /\ pOutcome' = [pOutcome EXCEPT ![t] = "forever"]
    BY <1>6 DEF Bar!Sem!Wait
  <2>3. pWaiting' = [pWaiting EXCEPT ![sem] = z]
    <3>1. PICK i \in 1 .. Len(w) + 1 :
            /\ i <= Len(w) => "priority" \in [s \in Bar!BarrierSems |-> {}][sem]
            /\ pWaiting' = [pWaiting EXCEPT ![sem] = InsertAt(@, i, t)]
      BY <1>6 DEF Bar!Sem!Wait, Bar!Sem!InsertAt, Bar!InsertAt, InsertAt
    <3>2. "priority" \notin [s \in Bar!BarrierSems |-> {}][sem]
      BY DEF Bar!BarrierSems, sem
    <3>3. i = Len(w) + 1
      BY <2>1, <3>1, <3>2
    <3>4. InsertAt(w, Len(w) + 1, t) = z
      <4> HIDE DEF w
      <4> QED BY <2>1, PutLast
    <3> QED BY <3>1, <3>3, <3>4
  <2>4. ~Contains(w, t)
    BY <2>2, <1>1 DEF RoundQueueOK
  <2>5. /\ z \in Seq(Rounders) /\ z # <<>> /\ IsInjective(z)
        /\ \A u : Contains(z, u) <=> Contains(w, u) \/ u = t
    <3> HIDE DEF w
    <3> QED BY <2>1, <2>4, Appended
  <2> HIDE DEF z
  <2>6. pWaiting' \in [{sem} -> Seq(Rounders)] /\ pWaiting'[sem] = z
    BY <2>3, <2>5, <1>1, RoundTypes
  <2>7. RoundTyped'
    BY <2>2, <2>6, <1>1, <1>2, <1>6, RoundTypes DEF RoundTyped, Bar!Sem!Outcomes
  <2>8. RoundQueueOK'
    <3>1. \A u \in Rounders : pOutcome'[u] = "forever" <=> Contains(z, u)
      BY <2>2, <2>5, <1>1, RoundTypes DEF RoundQueueOK
    <3> QED BY <3>1, <2>2, <2>5, <2>6 DEF RoundQueueOK
  <2>9. RoundWaitsOK'
    BY <2>2, <1>1, <1>2, <1>6, RoundTypes DEF RoundWaitsOK
  <2>10. Bar!Pending' = Bar!Pending /\ Bar!Handed' = Bar!Handed
    BY <2>2, <1>1, <1>6, RoundTypes DEF Bar!Pending, Bar!Handed
  <2>11. TokensCounted'
    BY <2>2, <2>10, <1>1, <1>2 DEF TokensCounted
  <2> QED BY <2>7, <2>8, <2>9, <2>11 DEF RoundIInv
<1> QED BY <1>4, <1>5, <1>6 DEF Bar!Pend, Bar!Goto, sem

LEMMA RoundNext ==
  ASSUME IsFiniteSet(Rounders), Count \in Nat \ {0}, RoundIInv, [Bar!Next]_(Bar!vars)
  PROVE  RoundIInv'
<1>1. CASE Bar!Next
  BY <1>1, ArrivePreserves, ArriveLastPreserves, RoundPendPreserves DEF Bar!Next
<1>2. CASE UNCHANGED Bar!vars
  <2>1. UNCHANGED <<pAvail, pWaiting, pOutcome, pendCount, pPc>>
    BY <1>2 DEF Bar!vars, Bar!semVars
  <2> QED BY <2>1 DEF RoundIInv, RoundTyped, RoundQueueOK, RoundWaitsOK, TokensCounted, Bar!Pending, Bar!Handed
<1> QED BY <1>1, <1>2

\* If all that are inside are blocked, there is no token, counted or handed over.
LEMMA RoundTokens ==
  ASSUME IsFiniteSet(Rounders), RoundIInv
  PROVE  Bar!BarrierTokens
<1>1. RoundTyped /\ RoundQueueOK /\ RoundWaitsOK /\ TokensCounted
  BY DEF RoundIInv
<1>2. ASSUME \A t \in Bar!Pending : pOutcome[t] = "forever"
      PROVE  Cardinality(Bar!Pending) = pendCount
  <2>1. Bar!Handed = {}
    BY <1>1, <1>2 DEF Bar!Handed, Bar!Pending, RoundWaitsOK
  <2>2. Cardinality(Bar!Handed) = 0
    BY <2>1, FS_EmptySet
  <2>3. CASE Bar!Pending = {}
    <3>1. Cardinality(Bar!Pending) = 0
      BY <2>3, FS_EmptySet
    <3> QED BY <3>1, <2>2, <1>1, RoundTypes DEF TokensCounted
  <2>4. CASE Bar!Pending # {}
    <3>1. PICK t \in Bar!Pending : Contains(pWaiting[sem], t)
      BY <2>4, <1>1, <1>2 DEF RoundQueueOK, Bar!Pending
    <3>2. pWaiting[sem] # <<>>
      BY <3>1 DEF Contains
    <3>3. pAvail[sem] = 0
      BY <3>2, <1>1 DEF RoundQueueOK
    <3> QED BY <3>3, <2>2, <1>1, RoundTypes DEF TokensCounted
  <2> QED BY <2>3, <2>4
<1> QED BY <1>1, <1>2, RoundTypeOK, SameOperators DEF Bar!BarrierTokens, TokensCounted, sem

-----------------------------------------------------------------------------
(* The condition variable, on the pointers of Queue.                       *)

\* The nodes of the list.
Elems == Users \cup {Cond}

\* t has begun to wait, and nobody has woken it.
Unwoken(t) == pPc[t] \in {"queued", "pend", "timedOut"} /\ ~(pAvail[t] = 1 \/ pOutcome[t] = "granted")

CondTyped ==
  /\ pAvail \in [Users -> 0 .. 1]
  /\ pWaiting \in [Users -> Seq(Users)]
  /\ pOutcome \in [Users -> Cv!Sem!Outcomes]
  /\ condList \in [next : [Elems -> Elems], prev : [Elems -> Elems]]
  /\ holder \in SUBSET Users
  /\ pPc \in [Users -> Cv!PCs]
  /\ condApp \in CondApps

\* Each thread waits on its own semaphore, in its pend, while there is no token;
\* those that time out have a time limit.
CondWaitsOK ==
  \A t \in Users :
    /\ pOutcome[t] \in {"idle", "timed", "forever", "granted", "timedout"}
    /\ pWaiting[t] = IF pOutcome[t] \in {"timed", "forever"} THEN <<t>> ELSE <<>>
    /\ pOutcome[t] # "idle" => pPc[t] = "pend"
    /\ pOutcome[t] \in {"timed", "forever"} => pAvail[t] = 0
    /\ pOutcome[t] \in {"timed", "timedout"} \/ pPc[t] = "timedOut" => t \in condApp.timed

\* The list is that of the threads nobody has woken.
CondListOK == \E s : List(Elems, condList, Cond, s) /\ \A e : Contains(s, e) <=> e \in Users /\ Unwoken(e)

\* A thread that was woken and may yet remove its element finds it cleared.
ClearedOK ==
  \A t \in Users : t \in condApp.timed /\ pPc[t] \in {"queued", "pend", "timedOut"} /\ ~Unwoken(t)
                     => condList.next[t] = t /\ condList.prev[t] = t

CondIInv == CondTyped /\ CondWaitsOK /\ CondListOK /\ ClearedOK

\* The operators that PthreadCond takes from Queue and the library are those
\* used here.
LEMMA CondOperators ==
  /\ \A S : Cv!Cardinality(S) = Cardinality(S)
  /\ \A l, q, s : Cv!IsQueue(l, q, s) <=> IsQueue(l, q, s)
  /\ \A l, q, n : Cv!Walk(l, q, n) = Walk(l, q, n)
  /\ \A s : Cv!IsInjective(s) <=> IsInjective(s)
  /\ \A s : Cv!ToSet(s) = ToSet(s)
  /\ \A l, e : Cv!Queue_elemClear(l, e) = Queue_elemClear(l, e)
  /\ \A l, q, e : Cv!Queue_put(l, q, e) = Queue_put(l, q, e)
  /\ \A l, q : Cv!Queue_dequeue(l, q) = Queue_dequeue(l, q)
  /\ \A l, q : Cv!Queue_head(l, q) = Queue_head(l, q)
  /\ \A l, q : Cv!Queue_empty(l, q) <=> Queue_empty(l, q)
  /\ \A l, e : Cv!Queue_remove(l, e) = Queue_remove(l, e)
<1>1. \A S : Cv!Cardinality(S) = Cardinality(S)
  BY DEF Cv!Cardinality, Cardinality
<1>2. \A l, q, s : Cv!IsQueue(l, q, s) <=> IsQueue(l, q, s)
  BY DEF Cv!IsQueue, IsQueue, Cv!Ring, Ring
<1>3. \A l, q, n : Cv!Walk(l, q, n) = Walk(l, q, n)
  BY DEF Cv!Walk, Walk
<1>4. \A s : Cv!IsInjective(s) <=> IsInjective(s)
  BY DEF Cv!IsInjective, IsInjective
<1>5. \A s : Cv!ToSet(s) = ToSet(s)
  BY DEF Cv!ToSet, ToSet
<1>6. /\ \A l, e : Cv!Queue_elemClear(l, e) = Queue_elemClear(l, e)
      /\ \A l, q, e : Cv!Queue_put(l, q, e) = Queue_put(l, q, e)
  BY DEF Cv!Queue_elemClear, Queue_elemClear, Cv!Queue_put, Queue_put, Cv!Queue_insert, Queue_insert
<1>7. /\ \A l, q : Cv!Queue_dequeue(l, q) = Queue_dequeue(l, q)
      /\ \A l, q : Cv!Queue_head(l, q) = Queue_head(l, q)
      /\ \A l, q : Cv!Queue_empty(l, q) <=> Queue_empty(l, q)
      /\ \A l, e : Cv!Queue_remove(l, e) = Queue_remove(l, e)
  BY DEF Cv!Queue_dequeue, Queue_dequeue, Cv!Queue_head, Queue_head, Cv!Queue_empty, Queue_empty,
         Cv!Queue_remove, Queue_remove
<1> QED BY <1>1, <1>2, <1>3, <1>4, <1>5, <1>6, <1>7

-----------------------------------------------------------------------------
(* What changes of the semaphores and of the list.                         *)

Begun(t) == pPc[t] \in {"queued", "pend", "timedOut"}

LEMMA CondTypes ==
  ASSUME CondTyped
  PROVE  /\ \A t \in Users : pAvail[t] = 0 \/ pAvail[t] = 1
         /\ pPc \in [Users -> Cv!PCs] /\ \A t \in Users : t \in Elems
         /\ pOutcome \in [Users -> Cv!Sem!Outcomes] /\ pAvail \in [Users -> Int] /\ pWaiting \in [Users -> Seq(Users)]
         /\ condList \in [next : [Elems -> Elems], prev : [Elems -> Elems]]
         /\ Cond \in Elems /\ condApp \in CondApps /\ holder \in SUBSET Users
  BY DEF CondTyped, Elems

\* Nobody comes to the list and nobody goes.
LEMMA ListStays ==
  ASSUME CondListOK, ClearedOK, UNCHANGED <<condList, condApp>>,
         \A u \in Users : (Unwoken(u)' <=> Unwoken(u)) /\ (Begun(u)' => Begun(u))
  PROVE  CondListOK' /\ ClearedOK'
<1>1. CondListOK'
  <2>1. PICK s : List(Elems, condList, Cond, s) /\ \A e : Contains(s, e) <=> e \in Users /\ Unwoken(e)
    BY DEF CondListOK
  <2>2. List(Elems, condList', Cond, s)
    BY <2>1
  <2>3. \A e : Contains(s, e) <=> e \in Users /\ Unwoken(e)'
    BY <2>1
  <2> QED BY <2>2, <2>3 DEF CondListOK
<1>2. ClearedOK'
  BY DEF ClearedOK, Begun
<1> QED BY <1>1, <1>2

LEMMA LockPreserves ==
  ASSUME CondAssumption, CondIInv, NEW t \in Users, Cv!Lock(t)
  PROVE  CondIInv'
<1>1. CondTyped /\ CondWaitsOK /\ CondListOK /\ ClearedOK
  BY DEF CondIInv
<1>2. /\ pPc[t] \in {"outside", "relock"} /\ pPc' = [pPc EXCEPT ![t] = "inside"]
      /\ holder' = {t} /\ UNCHANGED <<pAvail, pWaiting, pOutcome, condList, condApp>>
  BY DEF Cv!Lock, Cv!Goto, Cv!semVars
<1>3. pPc' \in [Users -> Cv!PCs] /\ pPc'[t] = "inside" /\ \A u \in Users : u # t => pPc'[u] = pPc[u]
  BY <1>1, <1>2, CondTypes DEF Cv!PCs
<1>4. CondTyped'
  BY <1>1, <1>2, <1>3 DEF CondTyped
<1>5. CondWaitsOK'
  BY <1>1, <1>2, <1>3 DEF CondWaitsOK
<1>6. \A u \in Users : (Unwoken(u)' <=> Unwoken(u)) /\ (Begun(u)' => Begun(u))
  BY <1>2, <1>3 DEF Unwoken, Begun
<1> QED BY <1>1, <1>2, <1>4, <1>5, <1>6, ListStays DEF CondIInv

LEMMA UnlocksPreserves ==
  ASSUME CondAssumption, CondIInv, NEW t \in Users, Cv!Unlock(t)
  PROVE  CondIInv'
<1>1. CondTyped /\ CondWaitsOK /\ CondListOK /\ ClearedOK
  BY DEF CondIInv
<1>2. PICK k \in {"outside", "pend"} :
        /\ pPc[t] = (IF k = "pend" THEN "queued" ELSE "inside") /\ pPc' = [pPc EXCEPT ![t] = k]
        /\ holder' = {} /\ UNCHANGED <<pAvail, pWaiting, pOutcome, condList, condApp>>
  BY DEF Cv!Unlock, Cv!At, Cv!Goto, Cv!semVars
<1>3. pPc' \in [Users -> Cv!PCs] /\ pPc'[t] = k /\ \A u \in Users : u # t => pPc'[u] = pPc[u]
  BY <1>1, <1>2, CondTypes DEF Cv!PCs
<1>4. CondTyped'
  BY <1>1, <1>2, <1>3 DEF CondTyped
<1>5. CondWaitsOK'
  BY <1>1, <1>2, <1>3 DEF CondWaitsOK
<1>6. \A u \in Users : (Unwoken(u)' <=> Unwoken(u)) /\ (Begun(u)' => Begun(u))
  <2>1. ASSUME NEW u \in Users, u # t PROVE (Unwoken(u)' <=> Unwoken(u)) /\ (Begun(u)' => Begun(u))
    BY <1>2, <1>3, <2>1 DEF Unwoken, Begun
  <2>2. (Unwoken(t)' <=> Unwoken(t)) /\ (Begun(t)' => Begun(t))
    BY <1>2, <1>3 DEF Unwoken, Begun
  <2> QED BY <2>1, <2>2
<1> QED BY <1>1, <1>2, <1>4, <1>5, <1>6, ListStays DEF CondIInv

\* A thread takes a token, returns from its wait, or waits.
LEMMA CondPendPreserves ==
  ASSUME CondAssumption, CondIInv, NEW t \in Users, Cv!Pend(t)
  PROVE  CondIInv'
<1>1. CondTyped /\ CondWaitsOK /\ CondListOK /\ ClearedOK
  BY DEF CondIInv
<1>2. pPc[t] = "pend" /\ UNCHANGED <<condList, holder, condApp>>
  BY DEF Cv!Pend, Cv!At
<1>3. CASE pOutcome[t] = "idle" /\ Cv!Sem!Take(t) /\ Cv!Goto(t, "relock")
  <2>1. /\ pAvail[t] = 1 /\ pAvail' = [pAvail EXCEPT ![t] = @ - 1] /\ UNCHANGED <<pWaiting, pOutcome>>
        /\ pPc' = [pPc EXCEPT ![t] = "relock"]
    BY <1>1, <1>3, CondTypes DEF Cv!Sem!Take, Cv!Goto
  <2>2. /\ pPc' \in [Users -> Cv!PCs] /\ pPc'[t] = "relock" /\ \A u \in Users : u # t => pPc'[u] = pPc[u]
        /\ pAvail' \in [Users -> 0 .. 1] /\ pAvail'[t] = 0 /\ \A u \in Users : u # t => pAvail'[u] = pAvail[u]
    BY <1>1, <2>1, CondTypes DEF Cv!PCs, CondTyped
  <2>3. CondTyped'
    BY <1>1, <1>2, <2>1, <2>2 DEF CondTyped
  <2>4. CondWaitsOK'
    BY <1>1, <1>2, <1>3, <2>1, <2>2 DEF CondWaitsOK
  <2>5. \A u \in Users : (Unwoken(u)' <=> Unwoken(u)) /\ (Begun(u)' => Begun(u))
    BY <1>2, <2>1, <2>2 DEF Unwoken, Begun
  <2> QED BY <1>1, <1>2, <2>3, <2>4, <2>5, ListStays DEF CondIInv
<1>4. ASSUME NEW k \in {"relock", "timedOut"}, Cv!Sem!Return(t), Cv!Goto(t, k),
             pOutcome[t] = IF k = "relock" THEN "granted" ELSE "timedout"
      PROVE  CondIInv'
  <2>1. /\ pOutcome' = [pOutcome EXCEPT ![t] = "idle"] /\ UNCHANGED <<pAvail, pWaiting>>
        /\ pPc' = [pPc EXCEPT ![t] = k]
    BY <1>4 DEF Cv!Sem!Return, Cv!Goto
  <2>2. /\ pPc' \in [Users -> Cv!PCs] /\ pPc'[t] = k /\ \A u \in Users : u # t => pPc'[u] = pPc[u]
        /\ pOutcome' \in [Users -> Cv!Sem!Outcomes] /\ pOutcome'[t] = "idle"
        /\ \A u \in Users : u # t => pOutcome'[u] = pOutcome[u]
    BY <1>1, <2>1, CondTypes DEF Cv!PCs, Cv!Sem!Outcomes
  <2>3. CondTyped'
    BY <1>1, <1>2, <2>1, <2>2 DEF CondTyped
  <2>4. CondWaitsOK'
    BY <1>1, <1>2, <1>4, <2>1, <2>2 DEF CondWaitsOK
  <2>5. \A u \in Users : (Unwoken(u)' <=> Unwoken(u)) /\ (Begun(u)' => Begun(u))
    BY <1>2, <1>4, <2>1, <2>2 DEF Unwoken, Begun
  <2> QED BY <1>1, <1>2, <2>3, <2>4, <2>5, ListStays DEF CondIInv
<1>5. CASE Cv!Sem!Wait(t, t, IF t \in condApp.timed THEN "timed" ELSE "forever") /\ UNCHANGED pPc
  <2> DEFINE how == IF t \in condApp.timed THEN "timed" ELSE "forever"
  <2>1. /\ pOutcome[t] = "idle" /\ pAvail[t] = 0 /\ UNCHANGED <<pAvail, pPc>>
        /\ pOutcome' = [pOutcome EXCEPT ![t] = how]
    BY <1>5 DEF Cv!Sem!Wait
  <2>2. pWaiting[t] = <<>>
    BY <1>1, <2>1 DEF CondWaitsOK
  <2>3. pWaiting' = [pWaiting EXCEPT ![t] = <<t>>]
    <3>1. PICK i \in 1 .. Len(pWaiting[t]) + 1 : pWaiting' = [pWaiting EXCEPT ![t] = InsertAt(@, i, t)]
      BY <1>5 DEF Cv!Sem!Wait, Cv!Sem!InsertAt, InsertAt
    <3>2. i = Len(<<>>) + 1 /\ <<>> \in Seq(Users) /\ Append(<<>>, t) = <<t>>
      BY <3>1, <2>2
    <3>3. InsertAt(<<>>, Len(<<>>) + 1, t) = <<t>>
      BY <3>2, PutLast
    <3> QED BY <3>1, <3>2, <3>3, <2>2
  <2>4. /\ pWaiting' \in [Users -> Seq(Users)] /\ pWaiting'[t] = <<t>> /\ \A u \in Users : u # t => pWaiting'[u] = pWaiting[u]
    BY <1>1, <2>3, CondTypes
  <2>5. /\ pOutcome' \in [Users -> Cv!Sem!Outcomes] /\ pOutcome'[t] = how /\ \A u \in Users : u # t => pOutcome'[u] = pOutcome[u]
    BY <1>1, <2>1, CondTypes DEF Cv!Sem!Outcomes
  <2>6. CondTyped'
    BY <1>1, <1>2, <2>1, <2>4, <2>5 DEF CondTyped
  <2>7. CondWaitsOK'
    BY <1>1, <1>2, <2>1, <2>4, <2>5 DEF CondWaitsOK
  <2>8. \A u \in Users : (Unwoken(u)' <=> Unwoken(u)) /\ (Begun(u)' => Begun(u))
    BY <1>2, <2>1, <2>5 DEF Unwoken, Begun
  <2> QED BY <1>1, <1>2, <2>6, <2>7, <2>8, ListStays DEF CondIInv
<1> QED BY <1>3, <1>4, <1>5 DEF Cv!Pend

\* The Clock Swi ends a wait; the element stays on the list.
LEMMA CondTimeOutPreserves ==
  ASSUME CondAssumption, CondIInv, NEW t \in Users, Cv!TimeOut(t)
  PROVE  CondIInv'
<1>1. CondTyped /\ CondWaitsOK /\ CondListOK /\ ClearedOK
  BY DEF CondIInv
<1>2. /\ pOutcome[t] = "timed" /\ pOutcome' = [pOutcome EXCEPT ![t] = "timedout"]
      /\ UNCHANGED <<pAvail, condList, holder, pPc, condApp>>
      /\ pWaiting' = Cv!Sem!Without(t)
  BY DEF Cv!TimeOut, Cv!Sem!TimeOut
<1>3. ASSUME NEW q \in Seq(Users), NEW x, ~Contains(q, x) PROVE Cv!Sem!RemoveFirst(q, x) = q
  BY <1>3 DEF Cv!Sem!RemoveFirst, Contains
<1>4. \A u \in Users : u # t => pWaiting[u] \in Seq(Users) /\ ~Contains(pWaiting[u], t)
  <2>1. ASSUME NEW u \in Users, u # t PROVE ~Contains(<<>>, t) /\ ~Contains(<<u>>, t)
    BY <2>1 DEF Contains
  <2> QED BY <2>1, <1>1, CondTypes DEF CondWaitsOK
<1>5. Cv!Sem!RemoveFirst(<<t>>, t) = <<>>
  <2> DEFINE q == <<t>>
             z == RemoveFirst(q, t)
  <2>1. q \in Seq(Users) /\ IsInjective(q) /\ \A y : Contains(q, y) <=> y = t
    BY DEF IsInjective, Contains
  <2> HIDE DEF q
  <2>2. z \in Seq(Users) /\ \A y : ~Contains(z, y)
    BY <2>1, TakenOut
  <2> HIDE DEF z
  <2>3. z = <<>>
    <3>1. Len(z) \in Nat
      BY <2>2
    <3>2. Len(z) # 0 => Contains(z, z[1])
      BY <3>1 DEF Contains
    <3> QED BY <3>1, <3>2, <2>2
  <2>4. Cv!Sem!RemoveFirst(q, t) = z
    BY DEF z, Cv!Sem!RemoveFirst, RemoveFirst, Cv!Sem!RemoveAt, RemoveAt, Cv!Sem!SelectInSeq, SelectInSeq, Cv!Sem!Min, Min
  <2> QED BY <2>3, <2>4 DEF q
<1>6. /\ pWaiting' = [u \in Users |-> IF u = t THEN <<>> ELSE pWaiting[u]]
  <2>1. pWaiting' = [u \in Users |-> Cv!Sem!RemoveFirst(pWaiting[u], t)]
    BY <1>2 DEF Cv!Sem!Without
  <2>2. pWaiting[t] = <<t>>
    BY <1>1, <1>2 DEF CondWaitsOK
  <2>3. \A u \in Users : Cv!Sem!RemoveFirst(pWaiting[u], t) = IF u = t THEN <<>> ELSE pWaiting[u]
    BY <2>2, <1>3, <1>4, <1>5
  <2> QED BY <2>1, <2>3
<1>7. pWaiting' \in [Users -> Seq(Users)] /\ pWaiting'[t] = <<>> /\ \A u \in Users : u # t => pWaiting'[u] = pWaiting[u]
  <2>1. <<>> \in Seq(Users)
    OBVIOUS
  <2> QED BY <2>1, <1>1, <1>6, CondTypes
<1>8. /\ pOutcome' \in [Users -> Cv!Sem!Outcomes] /\ pOutcome'[t] = "timedout"
      /\ \A u \in Users : u # t => pOutcome'[u] = pOutcome[u]
  BY <1>1, <1>2, CondTypes DEF Cv!Sem!Outcomes
<1>9. CondTyped'
  BY <1>1, <1>2, <1>7, <1>8 DEF CondTyped
<1>10. CondWaitsOK'
  BY <1>1, <1>2, <1>7, <1>8 DEF CondWaitsOK
<1>11. \A u \in Users : (Unwoken(u)' <=> Unwoken(u)) /\ (Begun(u)' => Begun(u))
  BY <1>2, <1>8 DEF Unwoken, Begun
<1> QED BY <1>1, <1>2, <1>9, <1>10, <1>11, ListStays DEF CondIInv

-----------------------------------------------------------------------------
(* What changes the list.                                                  *)

\* The waiters of a list, and the threads that are not on it.
LEMMA CondList ==
  ASSUME CondAssumption, NEW s, List(Elems, condList, Cond, s), \A e : Contains(s, e) <=> e \in Users /\ Unwoken(e)
  PROVE  /\ s \in Seq(Elems) /\ Len(s) \in Nat
         /\ \A i \in 1 .. Len(s) : s[i] \in Users /\ Unwoken(s[i])
         /\ \A i, j \in 1 .. Len(s) : s[i] = s[j] => i = j
         /\ \A u \in Users : ~Unwoken(u) => Absent(u, Cond, s)
         /\ Len(s) <= Cardinality(Users) /\ Cardinality(Users) \in Nat
<1>1. /\ s \in Seq(Elems) /\ Len(s) \in Nat
      /\ \A i, j \in 1 .. Len(s) : s[i] = s[j] => i = j
  BY DEF List
<1>2. \A i \in 1 .. Len(s) : s[i] \in Users /\ Unwoken(s[i])
  BY DEF Contains
<1>3. \A u \in Users : ~Unwoken(u) => Absent(u, Cond, s)
  BY DEF Contains, Absent, CondAssumption
<1>4. Len(s) <= Cardinality(Users) /\ Cardinality(Users) \in Nat
  <2>1. s \in Injection(1 .. Len(s), Users)
    BY <1>1, <1>2 DEF Injection, IsInjective
  <2>2. Cardinality(1 .. Len(s)) = Len(s)
    <3>1. 1 \in Int /\ Len(s) \in Int
      BY <1>1
    <3>2. Cardinality(1 .. Len(s)) = IF 1 > Len(s) THEN 0 ELSE (Len(s) - 1) + 1
      BY <3>1, FS_Interval
    <3> QED BY <3>2, <1>1
  <2> QED BY <2>1, <2>2, FS_Injection, FS_CardinalityType DEF CondAssumption
<1> QED BY <1>1, <1>2, <1>3, <1>4

\* A thread puts its element at the end of the list, whatever pointers it had.
LEMMA CondWaitPreserves ==
  ASSUME CondAssumption, CondIInv, NEW t \in Users, Cv!CondWait(t)
  PROVE  CondIInv'
<1> DEFINE m == Queue_elemClear(condList, t)
<1>1. CondTyped /\ CondWaitsOK /\ ClearedOK
  BY DEF CondIInv
<1>2. PICK s : List(Elems, condList, Cond, s) /\ \A e : Contains(s, e) <=> e \in Users /\ Unwoken(e)
  BY DEF CondIInv, CondListOK
<1>3. /\ pPc[t] = "inside" /\ pPc' = [pPc EXCEPT ![t] = "queued"]
      /\ condList' = Queue_put(m, Cond, t)
      /\ pAvail' = [pAvail EXCEPT ![t] = 0] /\ UNCHANGED <<pWaiting, pOutcome, holder, condApp>>
  BY CondOperators DEF Cv!CondWait, Cv!At, Cv!Goto, Cv!Sem!Reset
<1>4. /\ pPc' \in [Users -> Cv!PCs] /\ pPc'[t] = "queued" /\ \A u \in Users : u # t => pPc'[u] = pPc[u]
      /\ pAvail' \in [Users -> 0 .. 1] /\ pAvail'[t] = 0 /\ \A u \in Users : u # t => pAvail'[u] = pAvail[u]
  BY <1>1, <1>3, CondTypes DEF Cv!PCs, CondTyped
<1>5. pOutcome[t] = "idle"
  BY <1>1, <1>3 DEF CondWaitsOK
<1>6. Unwoken(t)' /\ ~Unwoken(t) /\ \A u \in Users : u # t => (Unwoken(u)' <=> Unwoken(u)) /\ (Begun(u)' <=> Begun(u))
  BY <1>3, <1>4, <1>5 DEF Unwoken, Begun
<1>7. Absent(t, Cond, s) /\ t \in Elems /\ s \in Seq(Elems) /\ Len(s) \in Nat /\ Cond \in Elems
      /\ \A u \in Users : ~Unwoken(u) => Absent(u, Cond, s)
  BY <1>1, <1>2, <1>6, CondList, CondTypes
<1>8. List(Elems, m, Cond, s)
  BY <1>2, <1>7, ClearedOffList
<1>9. List(Elems, condList', Cond, Append(s, t))
  <2>1. Queue_put(m, Cond, t) = Queue_insert(m, Node(Cond, s, Len(s) + 2), t)
    BY <1>7, <1>8, EndsOfList
  <2>2. Len(s) + 1 \in 1 .. Len(s) + 1 /\ (Len(s) + 1) + 1 = Len(s) + 2
    BY <1>7
  <2>3. List(Elems, Queue_insert(m, Node(Cond, s, (Len(s) + 1) + 1), t), Cond, InsertAt(s, Len(s) + 1, t))
    <3> HIDE DEF m
    <3> QED BY <2>2, <1>7, <1>8, InsertKeepsList
  <2>4. InsertAt(s, Len(s) + 1, t) = Append(s, t)
    BY <1>7, PutLast
  <2> QED BY <2>1, <2>2, <2>3, <2>4, <1>3
<1>10. \A e : Contains(Append(s, t), e) <=> Contains(s, e) \/ e = t
  BY <1>7, Appended
<1>11. CondListOK'
  <2>1. \A e : Contains(Append(s, t), e) <=> e \in Users /\ Unwoken(e)'
    BY <1>2, <1>6, <1>10
  <2> QED BY <2>1, <1>9 DEF CondListOK
<1>12. ClearedOK'
  <2> SUFFICES ASSUME NEW u \in Users, u \in condApp'.timed, Begun(u)', ~Unwoken(u)'
               PROVE  condList'.next[u] = u /\ condList'.prev[u] = u
    BY DEF ClearedOK, Begun
  <2>1. u # t /\ Begun(u) /\ ~Unwoken(u) /\ u \in condApp.timed /\ u \in Elems
    BY <1>1, <1>3, <1>6, CondTypes
  <2>2. condList.next[u] = u /\ condList.prev[u] = u
    BY <2>1, <1>1 DEF ClearedOK, Begun
  <2>3. m.next[u] = u /\ m.prev[u] = u
    BY <2>1, <2>2, <1>1, CondTypes DEF Queue_elemClear
  <2>4. Absent(u, Cond, s)
    BY <2>1, <1>7
  <2> HIDE DEF m
  <2> QED BY <2>1, <2>3, <2>4, <1>3, <1>7, <1>8, OffListKept
<1>13. CondTyped'
  <2>1. condList' \in [next : [Elems -> Elems], prev : [Elems -> Elems]]
    BY <1>9 DEF List
  <2> QED BY <2>1, <1>1, <1>3, <1>4 DEF CondTyped
<1>14. CondWaitsOK'
  BY <1>1, <1>3, <1>4, <1>5 DEF CondWaitsOK
<1> QED BY <1>11, <1>12, <1>13, <1>14 DEF CondIInv

\* A thread whose time is over removes its element: from the list, if nobody has
\* woken it, and from nowhere otherwise.
LEMMA TimedOutPreserves ==
  ASSUME CondAssumption, CondIInv, NEW t \in Users, Cv!TimedOut(t)
  PROVE  CondIInv'
<1>1. CondTyped /\ CondWaitsOK /\ ClearedOK
  BY DEF CondIInv
<1>2. PICK s : List(Elems, condList, Cond, s) /\ \A e : Contains(s, e) <=> e \in Users /\ Unwoken(e)
  BY DEF CondIInv, CondListOK
<1>3. /\ pPc[t] = "timedOut" /\ pPc' = [pPc EXCEPT ![t] = "relock"]
      /\ condList' = Queue_remove(condList, t)
      /\ UNCHANGED <<pAvail, pWaiting, pOutcome, holder, condApp>>
  BY CondOperators DEF Cv!TimedOut, Cv!At, Cv!Goto, Cv!semVars
<1>4. pPc' \in [Users -> Cv!PCs] /\ pPc'[t] = "relock" /\ \A u \in Users : u # t => pPc'[u] = pPc[u]
  BY <1>1, <1>3, CondTypes DEF Cv!PCs
<1>5. ~Unwoken(t)' /\ ~Begun(t)' /\ \A u \in Users : u # t => (Unwoken(u)' <=> Unwoken(u)) /\ (Begun(u)' <=> Begun(u))
  BY <1>3, <1>4 DEF Unwoken, Begun
<1>6. CondWaitsOK'
  BY <1>1, <1>3, <1>4 DEF CondWaitsOK
<1>7. CASE Unwoken(t)
  <2>1. PICK k \in 1 .. Len(s) : s[k] = t
    BY <1>2, <1>7 DEF Contains
  <2>2. /\ s \in Seq(Elems) /\ \A i, j \in 1 .. Len(s) : s[i] = s[j] => i = j
        /\ \A u \in Users : ~Unwoken(u) => Absent(u, Cond, s)
    BY <1>2, CondList
  <2>3. List(Elems, condList', Cond, RemoveAt(s, k))
    BY <2>1, <1>2, <1>3, RemoveKeepsList
  <2>4. \A e : Contains(RemoveAt(s, k), e) <=> Contains(s, e) /\ e # t
    BY <2>1, <2>2, RemovedElement
  <2>5. \A e : Contains(RemoveAt(s, k), e) <=> e \in Users /\ Unwoken(e)'
    BY <2>4, <1>2, <1>5
  <2>6. CondListOK'
    BY <2>3, <2>5 DEF CondListOK
  <2>7. ClearedOK'
    <3> SUFFICES ASSUME NEW u \in Users, u \in condApp'.timed, Begun(u)', ~Unwoken(u)'
                 PROVE  condList'.next[u] = u /\ condList'.prev[u] = u
      BY DEF ClearedOK, Begun
    <3>1. u # t /\ Begun(u) /\ ~Unwoken(u) /\ u \in condApp.timed /\ u \in Elems
      BY <1>1, <1>3, <1>5, CondTypes
    <3>2. condList.next[u] = u /\ condList.prev[u] = u
      BY <3>1, <1>1 DEF ClearedOK, Begun
    <3>3. Absent(u, Cond, s)
      BY <3>1, <2>2
    <3> QED BY <3>1, <3>2, <3>3, <2>1, <1>2, <1>3, OffListKept
  <2>8. CondTyped'
    <3>1. condList' \in [next : [Elems -> Elems], prev : [Elems -> Elems]]
      BY <2>3 DEF List
    <3> QED BY <3>1, <1>1, <1>3, <1>4 DEF CondTyped
  <2> QED BY <2>6, <2>7, <2>8, <1>6 DEF CondIInv
<1>8. CASE ~Unwoken(t)
  <2>1. condList.next[t] = t /\ condList.prev[t] = t
    BY <1>1, <1>3, <1>8 DEF CondWaitsOK, ClearedOK
  <2>2. condList' = condList
    BY <2>1, <1>1, <1>3, CondTypes, ClearedRemoved
  <2>3. CondTyped'
    BY <2>2, <1>1, <1>3, <1>4 DEF CondTyped
  <2>4. \A u \in Users : (Unwoken(u)' <=> Unwoken(u)) /\ (Begun(u)' => Begun(u))
    BY <1>5, <1>8
  <2> QED BY <2>2, <2>3, <2>4, <1>3, <1>6, ListStays DEF CondIInv
<1> QED BY <1>7, <1>8

\* Tokens for threads that nobody has woken.
LEMMA PostsTo ==
  ASSUME CondTyped, CondWaitsOK, NEW W, \A u \in W : u \in Users /\ Unwoken(u),
         Cv!PostTo(W), UNCHANGED <<pPc, condApp>>
  PROVE  /\ pAvail' \in [Users -> 0 .. 1] /\ pWaiting' \in [Users -> Seq(Users)]
         /\ pOutcome' \in [Users -> Cv!Sem!Outcomes]
         /\ CondWaitsOK'
         /\ \A u \in Users : (Unwoken(u)' <=> Unwoken(u) /\ u \notin W) /\ (Begun(u)' <=> Begun(u))
<1> DEFINE handed == {u \in W : pWaiting[u] # <<>>}
<1>1. /\ pWaiting' = [u \in Users |-> IF u \in handed THEN <<>> ELSE pWaiting[u]]
      /\ pOutcome' = [u \in Users |-> IF u \in handed THEN "granted" ELSE pOutcome[u]]
      /\ pAvail'   = [u \in Users |-> IF u \in W \ handed THEN 1 ELSE pAvail[u]]
  BY DEF Cv!PostTo
<1>2. \A u \in handed : u \in W /\ pOutcome[u] \in {"timed", "forever"}
  BY DEF CondWaitsOK
<1>3. \A u \in W \ handed : pOutcome[u] \in {"idle", "timedout"} /\ pAvail[u] = 0
  <2> SUFFICES ASSUME NEW u \in W, pWaiting[u] = <<>> PROVE pOutcome[u] \in {"idle", "timedout"} /\ pAvail[u] = 0
    OBVIOUS
  <2>1. u \in Users /\ <<u>> # <<>>
    OBVIOUS
  <2> QED BY <2>1, CondTypes DEF CondWaitsOK, Unwoken
<1>4. \A u \in W : u \in handed \/ u \in W \ handed
  OBVIOUS
<1> HIDE DEF handed
<1>5. pAvail' \in [Users -> 0 .. 1] /\ pWaiting' \in [Users -> Seq(Users)] /\ pOutcome' \in [Users -> Cv!Sem!Outcomes]
  <2>1. <<>> \in Seq(Users)
    OBVIOUS
  <2> QED BY <2>1, <1>1 DEF CondTyped, Cv!Sem!Outcomes
<1>6. CondWaitsOK'
  <2> SUFFICES ASSUME NEW u \in Users
               PROVE  /\ pOutcome'[u] \in {"idle", "timed", "forever", "granted", "timedout"}
                      /\ pWaiting'[u] = IF pOutcome'[u] \in {"timed", "forever"} THEN <<u>> ELSE <<>>
                      /\ pOutcome'[u] # "idle" => pPc[u] = "pend"
                      /\ pOutcome'[u] \in {"timed", "forever"} => pAvail'[u] = 0
                      /\ pOutcome'[u] \in {"timed", "timedout"} \/ pPc[u] = "timedOut" => u \in condApp.timed
    BY DEF CondWaitsOK
  <2>1. CASE u \in handed
    BY <2>1, <1>1, <1>2 DEF CondWaitsOK
  <2>2. CASE u \in W \ handed
    BY <2>2, <1>1, <1>3 DEF CondWaitsOK
  <2>3. CASE u \notin W
    BY <2>3, <1>1, <1>2 DEF CondWaitsOK
  <2> QED BY <2>1, <2>2, <2>3, <1>4
<1>7. ASSUME NEW u \in Users PROVE (Unwoken(u)' <=> Unwoken(u) /\ u \notin W) /\ (Begun(u)' <=> Begun(u))
  <2>1. CASE u \in handed
    BY <2>1, <1>1, <1>2 DEF Unwoken, Begun
  <2>2. CASE u \in W \ handed
    BY <2>2, <1>1 DEF Unwoken, Begun
  <2>3. CASE u \notin W
    BY <2>3, <1>1, <1>2 DEF Unwoken, Begun
  <2> QED BY <2>1, <2>2, <2>3, <1>4
<1> QED BY <1>5, <1>6, <1>7

LEMMA SignalPreserves ==
  ASSUME CondAssumption, CondIInv, Cv!Signal
  PROVE  CondIInv'
<1>1. CondTyped /\ CondWaitsOK /\ ClearedOK
  BY DEF CondIInv
<1>2. PICK s : List(Elems, condList, Cond, s) /\ \A e : Contains(s, e) <=> e \in Users /\ Unwoken(e)
  BY DEF CondIInv, CondListOK
<1> DEFINE e == s[1]
           m == Queue_remove(condList, e)
           z == RemoveAt(s, 1)
<1>3. /\ s \in Seq(Elems) /\ Len(s) \in Nat
      /\ \A i \in 1 .. Len(s) : s[i] \in Users /\ Unwoken(s[i])
      /\ \A i, j \in 1 .. Len(s) : s[i] = s[j] => i = j
      /\ \A u \in Users : ~Unwoken(u) => Absent(u, Cond, s)
  BY <1>2, CondList
<1>4. s # <<>> /\ UNCHANGED <<holder, pPc, condApp>>
  BY <1>2, EndsOfList, CondOperators DEF Cv!Signal
<1>5. 1 \in 1 .. Len(s) /\ e \in Users /\ Unwoken(e) /\ e \in Elems /\ e # Cond
  BY <1>3, <1>4 DEF Elems, CondAssumption
<1>6. /\ condList' = Queue_elemClear(m, e) /\ Cv!PostTo({e})
  <2>1. Queue_head(condList, Cond) = e /\ Queue_dequeue(condList, Cond) = m
    BY <1>2, <1>3, <1>4, <1>5, EndsOfList DEF Node
  <2>2. condList' = Cv!Unlinked(condList, Queue_head(condList, Cond)) /\ Cv!PostTo({Queue_head(condList, Cond)})
    BY CondOperators DEF Cv!Signal
  <2>3. Cv!Unlinked(condList, e) = Queue_elemClear(Queue_dequeue(condList, Cond), e)
    BY CondOperators DEF Cv!Unlinked
  <2> HIDE DEF m, e
  <2> QED BY <2>1, <2>2, <2>3
<1>7. List(Elems, m, Cond, z) /\ \A x : Contains(z, x) <=> Contains(s, x) /\ x # e
  BY <1>2, <1>3, <1>5, RemoveKeepsList, RemovedElement
<1> HIDE DEF e, m, z
<1>8. Absent(e, Cond, z)
  BY <1>5, <1>7 DEF Absent, Contains
<1>9. List(Elems, condList', Cond, z)
  BY <1>5, <1>6, <1>7, <1>8, ClearedOffList
<1>10. /\ pAvail' \in [Users -> 0 .. 1] /\ pWaiting' \in [Users -> Seq(Users)]
       /\ pOutcome' \in [Users -> Cv!Sem!Outcomes]
       /\ CondWaitsOK'
       /\ \A u \in Users : (Unwoken(u)' <=> Unwoken(u) /\ u # e) /\ (Begun(u)' <=> Begun(u))
  <2>1. \A u \in {e} : u \in Users /\ Unwoken(u)
    BY <1>5
  <2>2. \A u : u \in {e} <=> u = e
    OBVIOUS
  <2> QED BY <2>1, <2>2, <1>1, <1>4, <1>6, PostsTo
<1>11. CondListOK'
  <2>1. \A x : Contains(z, x) <=> x \in Users /\ Unwoken(x)'
    BY <1>2, <1>7, <1>10
  <2> QED BY <2>1, <1>9 DEF CondListOK
<1>12. ClearedOK'
  <2> SUFFICES ASSUME NEW u \in Users, u \in condApp'.timed, Begun(u)', ~Unwoken(u)'
               PROVE  condList'.next[u] = u /\ condList'.prev[u] = u
    BY DEF ClearedOK, Begun
  <2>1. m \in [next : [Elems -> Elems], prev : [Elems -> Elems]] /\ u \in Elems
    BY <1>1, <1>7, CondTypes DEF List
  <2>2. CASE u = e
    BY <2>1, <2>2, <1>6 DEF Queue_elemClear
  <2>3. CASE u # e
    <3>1. Begun(u) /\ ~Unwoken(u) /\ u \in condApp.timed
      BY <2>3, <1>4, <1>10
    <3>2. condList.next[u] = u /\ condList.prev[u] = u /\ Absent(u, Cond, s)
      BY <3>1, <1>1, <1>3 DEF ClearedOK, Begun
    <3>3. m.next[u] = u /\ m.prev[u] = u
      BY <3>2, <2>1, <1>2, <1>5, OffListKept DEF m, e
    <3> QED BY <3>3, <2>1, <2>3, <1>6 DEF Queue_elemClear
  <2> QED BY <2>2, <2>3
<1>13. CondTyped'
  <2>1. condList' \in [next : [Elems -> Elems], prev : [Elems -> Elems]]
    BY <1>9 DEF List
  <2> QED BY <2>1, <1>1, <1>4, <1>10 DEF CondTyped
<1> QED BY <1>10, <1>11, <1>12, <1>13 DEF CondIInv

\* Where no wait has a time limit, no element is removed twice, and the pointers
\* that broadcast leaves do no harm.
LEMMA BroadcastPreserves ==
  ASSUME CondAssumption, CondIInv, Cv!Broadcast
  PROVE  CondIInv'
<1>1. CondTyped /\ CondWaitsOK /\ ClearedOK
  BY DEF CondIInv
<1>2. PICK s : List(Elems, condList, Cond, s) /\ \A e : Contains(s, e) <=> e \in Users /\ Unwoken(e)
  BY DEF CondIInv, CondListOK
<1> DEFINE all == Cv!Walk(condList, Cond, Cv!Cardinality(Users))
<1>3. UNCHANGED <<holder, pPc, condApp>> /\ Cv!PostTo(Cv!ToSet(all)) /\ condApp.timed = {}
  BY <1>1, CondTypes DEF Cv!Broadcast, CondAssumption
<1>4. all = s
  <2>1. Cardinality(Users) \in Nat /\ Len(s) <= Cardinality(Users)
    BY <1>2, CondList
  <2>2. Walk(condList, Cond, Cardinality(Users)) = s
    BY <2>1, <1>2, Walked
  <2> QED BY <2>2, CondOperators
<1>5. List(Elems, condList', Cond, <<>>)
  <2>1. condList' = LET f[n \in 0 .. Len(all)] == IF n = 0 THEN condList ELSE Cv!Queue_dequeue(f[n - 1], Cond)
                    IN  f[Len(all)]
    BY DEF Cv!Broadcast
  <2>2. List(Elems, condList, Cond, all)
    BY <1>2, <1>4
  <2> HIDE DEF all
  <2>3. List(Elems, LET f[n \in 0 .. Len(all)] == IF n = 0 THEN condList ELSE Queue_dequeue(f[n - 1], Cond)
                    IN  f[Len(all)], Cond, <<>>)
    BY <2>2, AllDequeued
  <2> QED BY <2>1, <2>3 DEF Cv!Queue_dequeue, Queue_dequeue
<1>6. Cv!ToSet(all) = {u \in Users : Unwoken(u)}
  <2>1. Cv!ToSet(all) = ToSet(s)
    BY <1>4, CondOperators
  <2>2. ToSet(s) = {s[i] : i \in 1 .. Len(s)}
    <3>1. s \in Seq(Elems)
      BY <1>2 DEF List
    <3> QED BY <3>1 DEF ToSet
  <2>3. \A x : x \in ToSet(s) <=> Contains(s, x)
    BY <2>2 DEF Contains
  <2> QED BY <2>1, <2>3, <1>2
<1> HIDE DEF all
<1>7. /\ pAvail' \in [Users -> 0 .. 1] /\ pWaiting' \in [Users -> Seq(Users)]
      /\ pOutcome' \in [Users -> Cv!Sem!Outcomes]
      /\ CondWaitsOK'
      /\ \A u \in Users : ~Unwoken(u)'
  <2> DEFINE W == {u \in Users : Unwoken(u)}
  <2>1. \A u \in W : u \in Users /\ Unwoken(u)
    OBVIOUS
  <2>2. Cv!PostTo(W) /\ UNCHANGED <<pPc, condApp>>
    BY <1>3, <1>6
  <2>3. \A u \in Users : u \in W <=> Unwoken(u)
    OBVIOUS
  <2> HIDE DEF W
  <2> QED BY <2>1, <2>2, <2>3, <1>1, PostsTo
<1>8. CondListOK'
  <2>1. \A x : Contains(<<>>, x) <=> x \in Users /\ Unwoken(x)'
    BY <1>7 DEF Contains
  <2> QED BY <2>1, <1>5 DEF CondListOK
<1>9. ClearedOK'
  BY <1>3 DEF ClearedOK
<1>10. CondTyped'
  <2>1. condList' \in [next : [Elems -> Elems], prev : [Elems -> Elems]]
    BY <1>5 DEF List
  <2> QED BY <2>1, <1>1, <1>3, <1>7 DEF CondTyped
<1> QED BY <1>7, <1>8, <1>9, <1>10 DEF CondIInv

-----------------------------------------------------------------------------
(* The invariant, and the theorem.                                         *)

LEMMA CondInit == CondAssumption /\ Cv!Init => CondIInv
<1> SUFFICES ASSUME CondAssumption, Cv!Init PROVE CondIInv
  OBVIOUS
<1>1. /\ pAvail = [t \in Users |-> 0] /\ pWaiting = [t \in Users |-> <<>>] /\ pOutcome = [t \in Users |-> "idle"]
      /\ holder = {} /\ pPc = [t \in Users |-> "outside"] /\ condApp \in CondApps
      /\ condList = [next |-> [n \in Elems |-> n], prev |-> [n \in Elems |-> n]]
  BY DEF Cv!Init, Cv!Sem!Init, Cv!Cleared, Elems
<1>2. condList \in [next : [Elems -> Elems], prev : [Elems -> Elems]] /\ Cond \in Elems
  BY <1>1 DEF Elems
<1>3. CondTyped
  <2>1. <<>> \in Seq(Users)
    OBVIOUS
  <2> QED BY <2>1, <1>1, <1>2 DEF CondTyped, Cv!Sem!Outcomes, Cv!PCs
<1>4. CondWaitsOK
  BY <1>1 DEF CondWaitsOK
<1>5. \A t \in Users : ~Begun(t) /\ ~Unwoken(t)
  BY <1>1 DEF Begun, Unwoken
<1>6. ClearedOK
  BY <1>5 DEF ClearedOK, Begun
<1>7. CondListOK
  <2>1. <<>> \in Seq(Elems) /\ Len(<<>>) = 0
    OBVIOUS
  <2>2. IsQueue(condList, Cond, <<>>)
    <3> DEFINE s == <<>>
    <3>1. s \in Seq(Elems) /\ Len(s) = 0
      OBVIOUS
    <3> HIDE DEF s
    <3>2. Node(Cond, s, 1) = Cond /\ Node(Cond, s, 2) = Cond
      BY <3>1 DEF Node
    <3>3. condList.next[Cond] = Cond /\ condList.prev[Cond] = Cond
      BY <1>1, <1>2
    <3>4. \A i \in 1 .. Len(s) + 1 : i = 1 /\ i + 1 = 2
      BY <3>1
    <3>5. IsQueue(condList, Cond, s)
      <4>1. \A i \in 1 .. Len(s) + 1 : /\ condList.next[Node(Cond, s, i)] = Node(Cond, s, i + 1)
                                        /\ condList.prev[Node(Cond, s, i + 1)] = Node(Cond, s, i)
        BY <3>2, <3>3, <3>4
      <4> QED BY <4>1, <3>1, <1>2, ListNodes
    <3> QED BY <3>5 DEF s
  <2>3. List(Elems, condList, Cond, <<>>)
    BY <2>1, <2>2, <1>2 DEF List
  <2>4. \A x : Contains(<<>>, x) <=> x \in Users /\ Unwoken(x)
    BY <1>5 DEF Contains
  <2> QED BY <2>3, <2>4 DEF CondListOK
<1> QED BY <1>3, <1>4, <1>6, <1>7 DEF CondIInv

LEMMA CondNext == CondAssumption /\ CondIInv /\ [Cv!Next]_(Cv!vars) => CondIInv'
<1> SUFFICES ASSUME CondAssumption, CondIInv, [Cv!Next]_(Cv!vars) PROVE CondIInv'
  OBVIOUS
<1>1. ASSUME NEW t \in Users, Cv!Lock(t) \/ Cv!Unlock(t) \/ Cv!CondWait(t) \/ Cv!Pend(t) \/ Cv!TimedOut(t) \/ Cv!TimeOut(t)
      PROVE  CondIInv'
  BY <1>1, LockPreserves, UnlocksPreserves, CondWaitPreserves, CondPendPreserves, TimedOutPreserves, CondTimeOutPreserves
<1>2. CASE UNCHANGED Cv!vars
  <2>1. UNCHANGED <<pAvail, pWaiting, pOutcome, condList, holder, pPc, condApp>>
    BY <1>2 DEF Cv!vars, Cv!semVars
  <2>2. CondTyped' /\ CondWaitsOK'
    BY <2>1 DEF CondIInv, CondTyped, CondWaitsOK
  <2>3. \A u \in Users : (Unwoken(u)' <=> Unwoken(u)) /\ (Begun(u)' => Begun(u))
    BY <2>1 DEF Unwoken, Begun
  <2> QED BY <2>1, <2>2, <2>3, ListStays DEF CondIInv
<1> QED BY <1>1, <1>2, SignalPreserves, BroadcastPreserves DEF Cv!Next

LEMMA CondNoLostWaiter == CondAssumption /\ CondIInv => Cv!NoLostWaiter
<1> SUFFICES ASSUME CondAssumption, CondIInv PROVE Cv!NoLostWaiter
  OBVIOUS
<1> DEFINE all == Cv!Walk(condList, Cond, Cv!Cardinality(Users))
<1>1. CondTyped
  BY DEF CondIInv
<1>2. PICK s : List(Elems, condList, Cond, s) /\ \A e : Contains(s, e) <=> e \in Users /\ Unwoken(e)
  BY DEF CondIInv, CondListOK
<1>3. all = s
  <2>1. Cardinality(Users) \in Nat /\ Len(s) <= Cardinality(Users)
    BY <1>2, CondList
  <2>2. Walk(condList, Cond, Cardinality(Users)) = s
    BY <2>1, <1>2, Walked
  <2> QED BY <2>2, CondOperators
<1>4. s \in Seq(Elems) /\ \A i, j \in 1 .. Len(s) : s[i] = s[j] => i = j
  BY <1>2 DEF List
<1>5. Cv!TypeOK
  <2>1. 0 .. 2 - 1 = 0 .. 1
    OBVIOUS
  <2> QED BY <1>1, <2>1 DEF CondTyped, Cv!TypeOK, Cv!Sem!SpecTypeOK, Elems
<1>6. Cv!IsQueue(condList, Cond, s)
  BY <1>2, CondOperators DEF List
<1>7. Cv!IsInjective(s)
  <2>1. DOMAIN s = 1 .. Len(s)
    BY <1>4
  <2> QED BY <1>4, <2>1, CondOperators DEF IsInjective
<1>8. Cv!ToSet(s) = {t \in Users : pPc[t] \in {"queued", "pend", "timedOut"} /\ ~Cv!Posted(t)}
  <2>1. ToSet(s) = {s[i] : i \in 1 .. Len(s)}
    BY <1>4 DEF ToSet
  <2>2. \A x : x \in ToSet(s) <=> Contains(s, x)
    BY <2>1 DEF Contains
  <2>3. \A x \in Users : Unwoken(x) <=> pPc[x] \in {"queued", "pend", "timedOut"} /\ ~Cv!Posted(x)
    BY DEF Unwoken, Cv!Posted
  <2> QED BY <2>2, <2>3, <1>2, CondOperators
<1> HIDE DEF all
<1> QED BY <1>3, <1>5, <1>6, <1>7, <1>8 DEF Cv!NoLostWaiter, all

-----------------------------------------------------------------------------
(* Whichever object is in use.                                             *)

\* If o is the object in use, inv holds of it.
InUse(o, inv) == object = o => inv

LEMMA LockInUse == ASSUME LockAssumption PROVE SyncSpec => []InUse("rwlock", LockIInv)
<1>1. SyncInit => InUse("rwlock", LockIInv)
  BY LockInitIInv DEF SyncInit, InUse
<1>2. InUse("rwlock", LockIInv) /\ [SyncNext]_syncVars => InUse("rwlock", LockIInv)'
  <2> SUFFICES ASSUME InUse("rwlock", LockIInv), [SyncNext]_syncVars, object' = "rwlock"
               PROVE  LockIInv'
    BY DEF InUse
  <2>1. object = "rwlock" /\ LockIInv
    BY DEF InUse, SyncNext, syncVars
  <2>2. [Rw!Next]_(Rw!vars)
    BY <2>1 DEF SyncNext, syncVars, lockVars, Rw!vars, Rw!semVars, Rw!lockVars
  <2> QED BY <2>1, <2>2, LockNextIInv
<1> QED BY <1>1, <1>2, PTL DEF SyncSpec

LEMMA CondInUse == ASSUME CondAssumption PROVE SyncSpec => []InUse("cond", CondIInv)
<1>1. SyncInit => InUse("cond", CondIInv)
  BY CondInit DEF SyncInit, InUse
<1>2. InUse("cond", CondIInv) /\ [SyncNext]_syncVars => InUse("cond", CondIInv)'
  <2> SUFFICES ASSUME InUse("cond", CondIInv), [SyncNext]_syncVars, object' = "cond"
               PROVE  CondIInv'
    BY DEF InUse
  <2>1. object = "cond" /\ CondIInv
    BY DEF InUse, SyncNext, syncVars
  <2>2. [Cv!Next]_(Cv!vars)
    BY <2>1 DEF SyncNext, syncVars, condVars, Cv!vars, Cv!semVars
  <2> QED BY <2>1, <2>2, CondNext
<1> QED BY <1>1, <1>2, PTL DEF SyncSpec

LEMMA BarrierInUse == ASSUME BarrierAssumption PROVE SyncSpec => []InUse("barrier", RoundIInv)
<1>1. IsFiniteSet(Rounders) /\ Count \in Nat \ {0}
  BY DEF BarrierAssumption
<1>2. SyncInit => InUse("barrier", RoundIInv)
  BY <1>1, RoundInit DEF SyncInit, InUse
<1>3. InUse("barrier", RoundIInv) /\ [SyncNext]_syncVars => InUse("barrier", RoundIInv)'
  <2> SUFFICES ASSUME InUse("barrier", RoundIInv), [SyncNext]_syncVars, object' = "barrier"
               PROVE  RoundIInv'
    BY DEF InUse
  <2>1. object = "barrier" /\ RoundIInv
    BY DEF InUse, SyncNext, syncVars
  <2>2. [Bar!Next]_(Bar!vars)
    BY <2>1 DEF SyncNext, syncVars, Bar!vars, Bar!semVars
  <2> QED BY <1>1, <2>1, <2>2, RoundNext
<1> QED BY <1>2, <1>3, PTL DEF SyncSpec

\* A writer is alone, the readers inside are counted, and owner tells whether the
\* lock is in use, for any number of threads (pthread_rwlock.c:110-420).
THEOREM WritersAlone == ASSUME LockAssumption PROVE SyncSpec => []RwExclusion
<1>1. InUse("rwlock", LockIInv) => RwExclusion
  BY IInvExcludes DEF InUse, RwExclusion
<1> QED BY <1>1, LockInUse, PTL

\* A reader waits for a token that nobody has posted only while a writer has the
\* lock, and will post it (pthread_rwlock_unlock, pthread_rwlock.c:240-250).
THEOREM ReadersWake == ASSUME LockAssumption PROVE SyncSpec => []ReadersWoken
<1>1. InUse("rwlock", LockIInv) => ReadersWoken
  BY IInvWakes DEF InUse, ReadersWoken
<1> QED BY <1>1, LockInUse, PTL

\* pthread_cond.c:242-245: from the moment a waiter unlocks the mutex no wake-up
\* can miss it, and no element is on the list once the wait it belongs to is over;
\* for applications that do not broadcast to threads that wait with a time limit,
\* whose elements broadcast leaves uncleared (README, section 3).
THEOREM NoWaiterLost == ASSUME CondAssumption PROVE SyncSpec => []NoLostWaiter
<1>1. InUse("cond", CondIInv) => NoLostWaiter
  BY CondNoLostWaiter DEF InUse, NoLostWaiter
<1> QED BY <1>1, CondInUse, PTL

\* The tokens pthread_barrier_wait (pthread_barrier.c:123-152) posts are neither
\* lost nor left over: with the count they account for the threads inside.  Which
\* thread takes which of them, and so the thread of which round goes on, is not
\* stated.
THEOREM NoTokenLost == ASSUME BarrierAssumption PROVE SyncSpec => []BarrierTokens
<1>1. InUse("barrier", RoundIInv) => BarrierTokens
  BY RoundTokens DEF InUse, BarrierTokens, BarrierAssumption
<1> QED BY <1>1, BarrierInUse, PTL
=============================================================================
