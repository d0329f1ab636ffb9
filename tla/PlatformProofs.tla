--------------------------- MODULE PlatformProofs ---------------------------
(***************************************************************************)
(* Proofs about the platform around the organizations.  TenantSubscription *)
(* is proved for any number of requests, any payloads, limits and import   *)
(* sizes; Seeding for any number of runs, interruptions and writes of the  *)
(* office, to any tables.                                                  *)
(***************************************************************************)
EXTENDS TenantSubscription, Seeding, FiniteSetTheorems, SequenceTheorems, TLAPS

-----------------------------------------------------------------------------
(* Subscriptions and seats.                                                  *)

N == Cardinality(Requests)

\* Requests whose check granted seats they have not taken yet.
Granted(k) == {r \in Requests : job[r].pc = "create" /\ job[r].kind = k}

\* A limit that was read is at most the largest that was ever in force.
CapInForce ==
  \A r \in Requests : job[r].pc = "count" =>
    job[r].kind \in SeatKinds /\ job[r].cap <= topLimit[job[r].kind]

KindIsSeat ==
  \A r \in Requests : job[r].pc \in {"enabled", "config", "count", "create"} =>
    job[r].kind \in SeatKinds

\* Some granted request found its seats free, counting as taken all the others
\* that are granted at that time.
SeatsReserved ==
  \A k \in SeatKinds :
    \/ Granted(k) = {} /\ seats[k] <= topLimit[k] + (N - 1) * MaxBatch
    \/ \E r \in Granted(k) :
         seats[k] + job[r].size + (Cardinality(Granted(k)) - 1) * MaxBatch
           <= topLimit[k] + (N - 1) * MaxBatch

\* The standing that a status and a trial end give at the present day.
Effective(s, e) == IF s = "TRIAL" /\ e < now THEN "PAST_DUE" ELSE s

CrossedAreWriting == crossed \subseteq Writing

\* What a job is about to write leaves the standing as it is, unless crossed.
WritesKeepStanding ==
  \A j \in Writing \ crossed :
    /\ job[j].pc = "write" =>
         /\ job[j].trialEndsAt = trialEndsAt
         /\ Effective(job[j].subscription, trialEndsAt) = Standing
    /\ job[j].pc = "lapse" => Standing = "PAST_DUE"

LimitInForce == \A k \in SeatKinds : limit[k] <= topLimit[k]

IInv ==
  /\ TypeOK
  /\ LimitInForce
  /\ KindIsSeat
  /\ CapInForce
  /\ SeatsReserved
  /\ CrossedAreWriting
  /\ WritesKeepStanding

-----------------------------------------------------------------------------
LEMMA IdleFields == Idle \in Job /\ Idle.pc = "idle"
  BY SizeAssumption DEF Idle, Job, Pc, OrganizationModule, SubscriptionStatus

LEMMA RequestCount == N \in Nat /\ N >= 1 /\ Requests \subseteq Jobs
<1>1. N \in Nat
  BY JobsAssumption, FS_CardinalityType DEF N
<1>2. N # 0
  BY JobsAssumption, FS_EmptySet DEF N
<1> QED
  BY <1>1, <1>2 DEF Jobs

LEMMA GrantedFinite ==
  ASSUME NEW k
  PROVE  /\ IsFiniteSet(Granted(k))
         /\ Cardinality(Granted(k)) \in Nat
         /\ Cardinality(Granted(k)) <= N
         /\ Granted(k) # {} => Cardinality(Granted(k)) >= 1
<1>1. Granted(k) \subseteq Requests
  BY DEF Granted
<1>2. IsFiniteSet(Granted(k)) /\ Cardinality(Granted(k)) <= N
  BY <1>1, JobsAssumption, FS_Subset DEF N
<1>3. Cardinality(Granted(k)) \in Nat
  BY <1>2, FS_CardinalityType
<1>4. Granted(k) # {} => Cardinality(Granted(k)) # 0
  BY <1>2, FS_EmptySet
<1> QED
  BY <1>2, <1>3, <1>4

LEMMA InitInv == Init => IInv
<1> SUFFICES ASSUME Init
             PROVE  IInv
  OBVIOUS
<1> USE DEF Init
<1>1. \A j \in Jobs : job[j].pc = "idle"
  BY IdleFields
<1>2. TypeOK
  BY IdleFields, PayloadAssumption DEF TypeOK, Payload
<1>3. LimitInForce /\ KindIsSeat /\ CapInForce
  BY <1>1, <1>2, RequestCount DEF TypeOK, LimitInForce, KindIsSeat, CapInForce
<1>4. Writing = {}
  BY <1>1 DEF Writing
<1>5. SeatsReserved
  <2> SUFFICES ASSUME NEW k \in SeatKinds
               PROVE  Granted(k) = {} /\ seats[k] <= topLimit[k] + (N - 1) * MaxBatch
    BY DEF SeatsReserved
  <2>1. Granted(k) = {}
    BY <1>1, RequestCount DEF Granted
  <2>2. topLimit[k] \in Nat /\ seats[k] = 0
    BY <1>2 DEF TypeOK
  <2>3. (N - 1) * MaxBatch \in Nat
    BY RequestCount, SizeAssumption
  <2> QED
    BY <2>1, <2>2, <2>3
<1> QED
  BY <1>2, <1>3, <1>4, <1>5 DEF IInv, CrossedAreWriting, WritesKeepStanding

-----------------------------------------------------------------------------
(* Seats.                                                                   *)

\* Jobs and seats are left alone, and limits only rise.
LEMMA ReservedWhenSeatsKept ==
  ASSUME TypeOK, TypeOK', SeatsReserved, NEW k \in SeatKinds,
         Granted(k)' = Granted(k), seats'[k] <= seats[k], topLimit[k] <= topLimit'[k],
         \A r \in Granted(k) : job'[r].size = job[r].size
  PROVE  \/ Granted(k)' = {} /\ seats'[k] <= topLimit'[k] + (N - 1) * MaxBatch
         \/ \E r \in Granted(k)' :
              seats'[k] + job'[r].size + (Cardinality(Granted(k)') - 1) * MaxBatch
                <= topLimit'[k] + (N - 1) * MaxBatch
<1> DEFINE B == (N - 1) * MaxBatch
           C == (Cardinality(Granted(k)) - 1) * MaxBatch
<1>1. B \in Int /\ C \in Int
  BY RequestCount, GrantedFinite, SizeAssumption
<1>2. seats[k] \in Nat /\ seats'[k] \in Nat /\ topLimit[k] \in Nat /\ topLimit'[k] \in Nat
  BY DEF TypeOK
<1>3. \A r \in Granted(k) : job[r].size \in Nat
  BY RequestCount DEF TypeOK, Granted, Job
<1>4. \/ Granted(k) = {} /\ seats[k] <= topLimit[k] + B
      \/ \E r \in Granted(k) : seats[k] + job[r].size + C <= topLimit[k] + B
  BY DEF SeatsReserved
<1> HIDE DEF B, C
<1>5. \/ Granted(k) = {} /\ seats'[k] <= topLimit'[k] + B
      \/ \E r \in Granted(k) : seats'[k] + job'[r].size + C <= topLimit'[k] + B
  BY <1>1, <1>2, <1>3, <1>4
<1> QED
  BY <1>5 DEF B, C

\* A granted request leaves, having taken at most what it was granted.
LEMMA ReservedWhenGrantEnds ==
  ASSUME TypeOK, TypeOK', SeatsReserved, NEW k \in SeatKinds, NEW r \in Granted(k),
         Granted(k)' = Granted(k) \ {r}, seats'[k] <= seats[k] + job[r].size,
         topLimit'[k] = topLimit[k],
         \A s \in Granted(k) \ {r} : job'[s].size = job[s].size
  PROVE  \/ Granted(k)' = {} /\ seats'[k] <= topLimit'[k] + (N - 1) * MaxBatch
         \/ \E s \in Granted(k)' :
              seats'[k] + job'[s].size + (Cardinality(Granted(k)') - 1) * MaxBatch
                <= topLimit'[k] + (N - 1) * MaxBatch
<1> DEFINE B == (N - 1) * MaxBatch
           c == Cardinality(Granted(k))
           C == (c - 1) * MaxBatch
           D == (c - 2) * MaxBatch
<1>1. B \in Int /\ c \in Nat /\ c >= 1 /\ MaxBatch \in Nat
  BY RequestCount, GrantedFinite, SizeAssumption
<1>2. C \in Int /\ D \in Int /\ C = D + MaxBatch
  <2> HIDE DEF c
  <2> QED
    BY <1>1
<1>3. seats[k] \in Nat /\ seats'[k] \in Nat /\ topLimit[k] \in Nat
  BY DEF TypeOK
<1>4. \A s \in Granted(k) : job[s].size \in Nat /\ job[s].size <= MaxBatch
  BY RequestCount, SizeAssumption DEF TypeOK, Granted, Job
<1>5. PICK w \in Granted(k) : seats[k] + job[w].size + C <= topLimit[k] + B
  BY DEF SeatsReserved
<1>6. Cardinality(Granted(k)') = c - 1
  BY GrantedFinite, FS_RemoveElement
<1>7. CASE c = 1
  <2>1. Granted(k)' = {}
    <3>1. IsFiniteSet(Granted(k)')
      BY GrantedFinite, FS_RemoveElement
    <3> QED
      BY <3>1, <1>6, <1>7, FS_EmptySet
  <2>2. C = 0
    BY <1>7, <1>1
  <2>3. w = r
    BY <2>1
  <2> QED
    <3> HIDE DEF B, C, D, c
    <3>1. seats'[k] <= topLimit'[k] + B
      BY <1>1, <1>3, <1>4, <1>5, <2>2, <2>3
    <3> QED
      BY <3>1, <2>1 DEF B
<1>8. CASE c # 1
  <2>1. Granted(k)' # {}
    <3>1. Cardinality({}) = 0
      BY FS_EmptySet
    <3>2. c - 1 # 0
      <4> HIDE DEF c
      <4> QED
        BY <1>1, <1>8
    <3> QED
      BY <3>1, <3>2, <1>6
  <2>2. \E s \in Granted(k)' : seats'[k] + job[s].size + D <= topLimit[k] + B
    <3>1. CASE w = r
      <4>1. PICK s \in Granted(k)' : TRUE
        BY <2>1
      <4>2. seats'[k] + job[s].size + D <= topLimit[k] + B
        <5> HIDE DEF B, C, D, c
        <5> QED
          BY <1>1, <1>2, <1>3, <1>4, <1>5, <3>1, <4>1
      <4> QED
        BY <4>2
    <3>2. CASE w # r
      <4>1. seats'[k] + job[w].size + D <= topLimit[k] + B
        <5> HIDE DEF B, C, D, c
        <5> QED
          BY <1>1, <1>2, <1>3, <1>4, <1>5
      <4> QED
        BY <4>1, <3>2
    <3> QED
      BY <3>1, <3>2
  <2>3. D = (Cardinality(Granted(k)') - 1) * MaxBatch
    <3>1. c - 2 = (c - 1) - 1
      BY <1>1
    <3> QED
      BY <3>1, <1>6
  <2>4. \A s \in Granted(k)' : job'[s].size = job[s].size
    OBVIOUS
  <2> QED
    <3> HIDE DEF B, C, D, c
    <3> QED
      BY <2>2, <2>3, <2>4 DEF B
<1> QED
  BY <1>7, <1>8

\* A request is granted the seats it found free.
LEMMA ReservedWhenGranted ==
  ASSUME TypeOK, TypeOK', NEW k \in SeatKinds, NEW r \in Granted(k)',
         seats'[k] + job'[r].size <= topLimit'[k]
  PROVE  \E s \in Granted(k)' :
           seats'[k] + job'[s].size + (Cardinality(Granted(k)') - 1) * MaxBatch
             <= topLimit'[k] + (N - 1) * MaxBatch
<1> DEFINE G == Granted(k)'
           c == Cardinality(G)
<1>1. G \subseteq Requests
  BY DEF Granted
<1>2. IsFiniteSet(G) /\ c <= N
  BY <1>1, JobsAssumption, FS_Subset DEF N
<1>3. c \in Nat
  BY <1>2, FS_CardinalityType
<1>4. (c - 1) * MaxBatch <= (N - 1) * MaxBatch
  <2> DEFINE d == N - c
  <2>1. d \in Nat /\ N - 1 = (c - 1) + d
    <3> HIDE DEF c
    <3> QED
      BY <1>2, <1>3, RequestCount
  <2>2. (N - 1) * MaxBatch = (c - 1) * MaxBatch + d * MaxBatch
    <3> HIDE DEF c, d
    <3> QED
      BY <1>3, <2>1, RequestCount, SizeAssumption
  <2>3. d * MaxBatch \in Nat
    <3> HIDE DEF c, d
    <3> QED
      BY <2>1, SizeAssumption
  <2>4. (c - 1) * MaxBatch \in Int
    <3> HIDE DEF c
    <3> QED
      BY <1>3, SizeAssumption
  <2> QED
    BY <2>2, <2>3, <2>4
<1>5. seats'[k] \in Nat /\ topLimit'[k] \in Nat /\ job'[r].size \in Nat
  BY <1>1, RequestCount DEF TypeOK, Job
<1>6. (c - 1) * MaxBatch \in Int /\ (N - 1) * MaxBatch \in Int
  <2> HIDE DEF c
  <2> QED
    BY <1>3, RequestCount, SizeAssumption
<1>7. seats'[k] + job'[r].size + (c - 1) * MaxBatch <= topLimit'[k] + (N - 1) * MaxBatch
  BY <1>4, <1>5, <1>6
<1> QED
  BY <1>7

-----------------------------------------------------------------------------
(* Steps of a request that takes seats.                                     *)

\* A step that leaves the row, the clock and the pending writes alone keeps what
\* is known about those writes.
LEMMA WritesUntouched ==
  ASSUME CrossedAreWriting, WritesKeepStanding, UNCHANGED <<billing, now, crossed>>,
         Writing' = Writing, \A j \in Writing : job'[j] = job[j]
  PROVE  CrossedAreWriting' /\ WritesKeepStanding'
  BY DEF CrossedAreWriting, WritesKeepStanding, billing, Standing, TrialOver, Effective

\* A request that is neither granted nor writing moves to another such point.
LEMMA BeforeGrant ==
  ASSUME IInv, TypeOK', NEW r \in Requests,
         job[r].pc \in {"idle", "enabled", "config", "count"},
         job'[r].pc \in {"idle", "enabled", "config", "count"},
         \A j \in Jobs \ {r} : job'[j] = job[j],
         UNCHANGED <<billing, now, seats, topLimit, crossed>>
  PROVE  SeatsReserved' /\ CrossedAreWriting' /\ WritesKeepStanding'
<1> USE RequestCount DEF IInv
<1>1. \A k : Granted(k)' = Granted(k)
  BY DEF Granted
<1>2. \A k : \A s \in Granted(k) : job'[s].size = job[s].size
  BY DEF Granted
<1>3. Writing' = Writing /\ \A j \in Writing : job'[j] = job[j]
  BY DEF Writing
<1>4. SeatsReserved'
  <2> SUFFICES ASSUME NEW k \in SeatKinds
               PROVE  \/ Granted(k)' = {} /\ seats'[k] <= topLimit'[k] + (N - 1) * MaxBatch
                      \/ \E s \in Granted(k)' :
                           seats'[k] + job'[s].size + (Cardinality(Granted(k)') - 1) * MaxBatch
                             <= topLimit'[k] + (N - 1) * MaxBatch
    BY DEF SeatsReserved, N
  <2>1. seats'[k] <= seats[k] /\ topLimit[k] <= topLimit'[k]
    BY DEF TypeOK
  <2> QED
    BY <1>1, <1>2, <2>1, ReservedWhenSeatsKept
<1>5. CrossedAreWriting' /\ WritesKeepStanding'
  BY <1>3, WritesUntouched
<1> QED
  BY <1>4, <1>5

LEMMA StartSeatsInv ==
  ASSUME IInv, NEW r \in Requests, NEW k \in SeatKinds, NEW n \in 1..MaxBatch,
         StartSeats(r, k, n)
  PROVE  IInv'
<1> USE RequestCount DEF IInv, StartSeats, At
<1>1. TypeOK'
  BY DEF TypeOK, billing, Job, Pc, SeatKinds, OrganizationModule
<1>2. /\ job[r].pc \in {"idle", "enabled", "config", "count"}
      /\ job'[r].pc \in {"idle", "enabled", "config", "count"}
      /\ \A j \in Jobs \ {r} : job'[j] = job[j]
  BY DEF TypeOK, Job
<1>3. LimitInForce' /\ KindIsSeat' /\ CapInForce'
  BY DEF TypeOK, Job, KindIsSeat, CapInForce, LimitInForce, billing
<1>4. SeatsReserved' /\ CrossedAreWriting' /\ WritesKeepStanding'
  BY <1>1, <1>2, BeforeGrant
<1> QED
  BY <1>1, <1>3, <1>4

LEMMA CheckModuleInv ==
  ASSUME IInv, NEW r \in Requests, CheckModule(r)
  PROVE  IInv'
<1> USE RequestCount, IdleFields DEF IInv, CheckModule, At, Goto, Finish
<1>1. TypeOK'
  BY DEF TypeOK, billing, Job, Pc
<1>2. /\ job[r].pc \in {"idle", "enabled", "config", "count"}
      /\ job'[r].pc \in {"idle", "enabled", "config", "count"}
      /\ \A j \in Jobs \ {r} : job'[j] = job[j]
  BY DEF TypeOK, Job
<1>3. LimitInForce' /\ KindIsSeat' /\ CapInForce'
  BY DEF TypeOK, Job, KindIsSeat, CapInForce, LimitInForce, billing
<1>4. SeatsReserved' /\ CrossedAreWriting' /\ WritesKeepStanding'
  BY <1>1, <1>2, BeforeGrant
<1> QED
  BY <1>1, <1>3, <1>4

LEMMA ReadLimitInv ==
  ASSUME IInv, NEW r \in Requests, ReadLimit(r)
  PROVE  IInv'
<1> USE RequestCount, IdleFields DEF IInv, ReadLimit, At, Finish
<1>1. job[r].kind \in SeatKinds
  BY DEF KindIsSeat
<1>2. TypeOK'
  BY <1>1 DEF TypeOK, billing, Job, Pc
<1>3. /\ job[r].pc \in {"idle", "enabled", "config", "count"}
      /\ job'[r].pc \in {"idle", "enabled", "config", "count"}
      /\ \A j \in Jobs \ {r} : job'[j] = job[j]
  BY DEF TypeOK, Job
<1>4. LimitInForce' /\ KindIsSeat' /\ CapInForce'
  BY <1>1 DEF LimitInForce, TypeOK, Job, KindIsSeat, CapInForce, billing
<1>5. SeatsReserved' /\ CrossedAreWriting' /\ WritesKeepStanding'
  BY <1>2, <1>3, BeforeGrant
<1> QED
  BY <1>2, <1>4, <1>5

LEMMA CountSeatsInv ==
  ASSUME IInv, NEW r \in Requests, CountSeats(r)
  PROVE  IInv'
<1> USE RequestCount, IdleFields DEF IInv, CountSeats, At, Goto, Finish
<1>1. TypeOK'
  BY DEF TypeOK, billing, Job, Pc
<1>2. \A j \in Jobs \ {r} : job'[j] = job[j]
  BY DEF TypeOK
<1>3. LimitInForce' /\ KindIsSeat' /\ CapInForce'
  BY DEF TypeOK, Job, KindIsSeat, CapInForce, LimitInForce, billing
<1>4. CASE seats[job[r].kind] + job[r].size <= job[r].cap
  <2> PICK K \in SeatKinds : job[r].kind = K
    BY DEF KindIsSeat
  <2>1. job[r].cap <= topLimit[K]
    BY DEF CapInForce
  <2>2. /\ job'[r].pc = "create" /\ job'[r].kind = K /\ job'[r].size = job[r].size
    BY <1>4 DEF TypeOK, Job
  <2>3. seats'[K] + job'[r].size <= topLimit'[K]
    <3>1. /\ seats[K] \in Nat /\ topLimit[K] \in Nat
          /\ job[r].size \in Nat /\ job[r].cap \in Nat
      BY <2>1 DEF TypeOK, Job
    <3> QED
      BY <1>4, <2>1, <2>2, <3>1
  <2>4. r \in Granted(K)'
    BY <2>2 DEF Granted
  <2>5. \A k \in SeatKinds \ {K} : /\ Granted(k)' = Granted(k)
                                  /\ \A q \in Granted(k) : job'[q].size = job[q].size
    BY <1>2, <2>2 DEF Granted
  <2>6. SeatsReserved'
    <3> SUFFICES ASSUME NEW k \in SeatKinds
                 PROVE  \/ Granted(k)' = {} /\ seats'[k] <= topLimit'[k] + (N - 1) * MaxBatch
                        \/ \E q \in Granted(k)' :
                             seats'[k] + job'[q].size + (Cardinality(Granted(k)') - 1) * MaxBatch
                               <= topLimit'[k] + (N - 1) * MaxBatch
      BY DEF SeatsReserved, N
    <3>1. CASE k = K
      BY <1>1, <2>3, <2>4, <3>1, ReservedWhenGranted
    <3>2. CASE k # K
      <4>1. seats'[k] <= seats[k] /\ topLimit[k] <= topLimit'[k]
        BY DEF TypeOK
      <4> QED
        BY <1>1, <2>5, <3>2, <4>1, ReservedWhenSeatsKept
    <3> QED
      BY <3>1, <3>2
  <2>7. Writing' = Writing /\ \A j \in Writing : job'[j] = job[j]
    BY <1>2, <2>2 DEF Writing
  <2>8. CrossedAreWriting' /\ WritesKeepStanding'
    BY <2>7, WritesUntouched
  <2> QED
    BY <1>1, <1>3, <2>6, <2>8
<1>5. CASE ~(seats[job[r].kind] + job[r].size <= job[r].cap)
  <2>1. /\ job[r].pc \in {"idle", "enabled", "config", "count"}
        /\ job'[r].pc \in {"idle", "enabled", "config", "count"}
    BY <1>5 DEF TypeOK, Job
  <2>2. SeatsReserved' /\ CrossedAreWriting' /\ WritesKeepStanding'
    BY <1>1, <1>2, <2>1, BeforeGrant
  <2> QED
    BY <1>1, <1>3, <2>2
<1> QED
  BY <1>4, <1>5

\* A granted request ends with its insert.
LEMMA GrantEnds ==
  ASSUME IInv, TypeOK', NEW r \in Requests, job[r].pc = "create", Finish(r),
         NEW m \in 0..job[r].size, seats' = [seats EXCEPT ![job[r].kind] = @ + m],
         UNCHANGED <<billing, now, topLimit, crossed>>
  PROVE  SeatsReserved' /\ CrossedAreWriting' /\ WritesKeepStanding'
<1> USE RequestCount, IdleFields DEF IInv, Finish
<1> PICK K \in SeatKinds : job[r].kind = K
  BY DEF KindIsSeat
<1>2. \A j \in Jobs \ {r} : job'[j] = job[j]
  BY DEF TypeOK
<1>3. job'[r].pc = "idle"
  BY DEF TypeOK
<1>4. /\ r \in Granted(K) /\ Granted(K)' = Granted(K) \ {r}
      /\ \A q \in Granted(K) \ {r} : job'[q].size = job[q].size
  BY <1>2, <1>3 DEF Granted
<1>5. \A k \in SeatKinds \ {K} : /\ Granted(k)' = Granted(k)
                                /\ \A q \in Granted(k) : job'[q].size = job[q].size
  BY <1>2, <1>3 DEF Granted
<1>6. job[r].size \in Nat
  BY DEF TypeOK, Job
<1>7. SeatsReserved'
  <2> SUFFICES ASSUME NEW k \in SeatKinds
               PROVE  \/ Granted(k)' = {} /\ seats'[k] <= topLimit'[k] + (N - 1) * MaxBatch
                      \/ \E q \in Granted(k)' :
                           seats'[k] + job'[q].size + (Cardinality(Granted(k)') - 1) * MaxBatch
                             <= topLimit'[k] + (N - 1) * MaxBatch
    BY DEF SeatsReserved, N
  <2>1. CASE k = K
    <3>1. seats'[K] <= seats[K] + job[r].size
      BY <1>6 DEF TypeOK
    <3> QED
      BY <1>4, <2>1, <3>1, ReservedWhenGrantEnds
  <2>2. CASE k # K
    <3>1. seats'[k] <= seats[k] /\ topLimit[k] <= topLimit'[k]
      BY <2>2 DEF TypeOK
    <3> QED
      BY <1>5, <2>2, <3>1, ReservedWhenSeatsKept
  <2> QED
    BY <2>1, <2>2
<1>8. Writing' = Writing /\ \A j \in Writing : job'[j] = job[j]
  BY <1>2, <1>3 DEF Writing
<1> QED
  BY <1>7, <1>8, WritesUntouched

LEMMA TakeSeatsInv ==
  ASSUME IInv, NEW r \in Requests, TakeSeats(r)
  PROVE  IInv'
<1> USE RequestCount, IdleFields DEF IInv
<1>1. PICK m \in 0..job[r].size : seats' = [seats EXCEPT ![job[r].kind] = @ + m]
  BY DEF TakeSeats
<1>2. job[r].pc = "create" /\ job[r].kind \in SeatKinds /\ job[r].size \in Nat
  BY DEF TakeSeats, At, KindIsSeat, TypeOK, Job
<1>3. TypeOK'
  BY <1>1, <1>2 DEF TakeSeats, Finish, TypeOK, billing
<1>4. LimitInForce' /\ KindIsSeat' /\ CapInForce'
  BY DEF TakeSeats, Finish, TypeOK, KindIsSeat, CapInForce, LimitInForce, billing
<1>5. SeatsReserved' /\ CrossedAreWriting' /\ WritesKeepStanding'
  BY <1>1, <1>2, <1>3, GrantEnds DEF TakeSeats
<1> QED
  BY <1>3, <1>4, <1>5

\* Jobs are left alone.
LEMMA JobsKept ==
  ASSUME IInv, TypeOK', job' = job, \A k \in SeatKinds : seats'[k] <= seats[k],
         \A k \in SeatKinds : topLimit[k] <= topLimit'[k]
  PROVE  SeatsReserved'
<1> SUFFICES ASSUME NEW k \in SeatKinds
             PROVE  \/ Granted(k)' = {} /\ seats'[k] <= topLimit'[k] + (N - 1) * MaxBatch
                    \/ \E q \in Granted(k)' :
                         seats'[k] + job'[q].size + (Cardinality(Granted(k)') - 1) * MaxBatch
                           <= topLimit'[k] + (N - 1) * MaxBatch
  BY DEF SeatsReserved, N
<1>1. Granted(k)' = Granted(k) /\ \A q \in Granted(k) : job'[q].size = job[q].size
  BY DEF Granted
<1> QED
  BY <1>1, ReservedWhenSeatsKept DEF IInv

LEMMA ReleaseSeatsInv ==
  ASSUME IInv, NEW k \in SeatKinds, NEW n \in Nat, ReleaseSeats(k, n)
  PROVE  IInv'
<1> USE DEF IInv, ReleaseSeats
<1>1. TypeOK'
  BY DEF TypeOK, billing
<1>2. LimitInForce' /\ KindIsSeat' /\ CapInForce'
  BY DEF KindIsSeat, CapInForce, LimitInForce, billing
<1>3. SeatsReserved'
  <2>1. \A q \in SeatKinds : seats'[q] <= seats[q] /\ topLimit[q] <= topLimit'[q]
    BY DEF TypeOK
  <2> QED
    BY <1>1, <2>1, JobsKept
<1>4. CrossedAreWriting' /\ WritesKeepStanding'
  <2>1. Writing' = Writing
    BY DEF Writing
  <2> QED
    BY <2>1, WritesUntouched
<1> QED
  BY <1>1, <1>2, <1>3, <1>4

LEMMA PlatformUpdateInv ==
  ASSUME IInv, NEW p \in Payloads, PlatformUpdate(p)
  PROVE  IInv'
<1> USE RequestCount DEF IInv, PlatformUpdate
<1>1. p \in Payload
  BY PayloadAssumption
<1>2. /\ p.limit \in [SeatKinds -> Nat \ {0}] /\ p.isActive \in BOOLEAN
      /\ p.subscription \in SubscriptionStatus /\ p.trialEndsAt \in Nat
      /\ p.modules \in SUBSET OrganizationModule
  BY <1>1 DEF Payload
<1>3. Writing \subseteq Jobs /\ Writing' = Writing
  BY DEF Writing
<1>4. TypeOK'
  BY <1>2, <1>3 DEF TypeOK
<1>5. \A k \in SeatKinds : topLimit[k] <= topLimit'[k] /\ limit'[k] <= topLimit'[k]
  BY <1>2 DEF TypeOK
<1>6. LimitInForce' /\ KindIsSeat'
  BY <1>5 DEF LimitInForce, KindIsSeat
<1>7. CapInForce'
  <2> SUFFICES ASSUME NEW r \in Requests, job[r].pc = "count"
               PROVE  job[r].kind \in SeatKinds /\ job[r].cap <= topLimit'[job[r].kind]
    BY DEF CapInForce
  <2>1. job[r].kind \in SeatKinds /\ job[r].cap <= topLimit[job[r].kind] /\ job[r].cap \in Nat
    BY DEF CapInForce, TypeOK, Job
  <2> QED
    BY <1>4, <1>5, <2>1 DEF TypeOK
<1>8. SeatsReserved'
  <2>1. \A q \in SeatKinds : seats'[q] <= seats[q]
    BY DEF TypeOK
  <2> QED
    BY <1>4, <1>5, <2>1, JobsKept
<1>9. CrossedAreWriting' /\ WritesKeepStanding'
  BY <1>3 DEF CrossedAreWriting, WritesKeepStanding
<1> QED
  BY <1>4, <1>6, <1>7, <1>8, <1>9

-----------------------------------------------------------------------------
(* Steps of the writers of the row, of the clock, and deaths.               *)

\* A job outside the seat path moves within what is not granted.
LEMMA GrantsKept ==
  ASSUME IInv, TypeOK', NEW j \in Jobs, job[j].pc # "create", job'[j].pc # "create",
         \A i \in Jobs \ {j} : job'[i] = job[i], UNCHANGED <<seats, topLimit>>
  PROVE  SeatsReserved'
<1> SUFFICES ASSUME NEW k \in SeatKinds
             PROVE  \/ Granted(k)' = {} /\ seats'[k] <= topLimit'[k] + (N - 1) * MaxBatch
                    \/ \E q \in Granted(k)' :
                         seats'[k] + job'[q].size + (Cardinality(Granted(k)') - 1) * MaxBatch
                           <= topLimit'[k] + (N - 1) * MaxBatch
  BY DEF SeatsReserved, N
<1>1. Granted(k)' = Granted(k) /\ \A q \in Granted(k) : job'[q].size = job[q].size
  BY RequestCount DEF Granted
<1>2. seats'[k] <= seats[k] /\ topLimit[k] <= topLimit'[k]
  BY DEF IInv, TypeOK
<1> QED
  BY <1>1, <1>2, ReservedWhenSeatsKept DEF IInv

LEMMA StartSettingsInv ==
  ASSUME IInv, NEW r \in Requests, StartSettings(r)
  PROVE  IInv'
<1> USE RequestCount DEF IInv, StartSettings, At, Goto
<1>1. TypeOK'
  BY DEF TypeOK, billing, Job, Pc
<1>2. /\ job[r].pc # "create" /\ job'[r].pc = "existing"
      /\ \A j \in Jobs \ {r} : job'[j] = job[j]
  BY DEF TypeOK, Job
<1>3. LimitInForce' /\ KindIsSeat' /\ CapInForce'
  BY <1>2 DEF TypeOK, KindIsSeat, CapInForce, LimitInForce, billing
<1>4. SeatsReserved'
  BY <1>1, <1>2, GrantsKept
<1>5. Writing' = Writing /\ \A j \in Writing : job'[j] = job[j]
  BY <1>2 DEF Writing
<1> QED
  BY <1>1, <1>3, <1>4, <1>5, WritesUntouched

LEMMA ReadExistingInv ==
  ASSUME IInv, NEW r \in Requests, ReadExisting(r)
  PROVE  IInv'
<1> USE RequestCount DEF IInv, ReadExisting, At
<1>1. TypeOK'
  BY DEF TypeOK, billing, Job, Pc
<1>2. /\ job[r].pc = "existing" /\ job'[r].pc = "write"
      /\ job'[r].subscription = subscription /\ job'[r].trialEndsAt = trialEndsAt
      /\ \A j \in Jobs \ {r} : job'[j] = job[j]
  BY DEF TypeOK, Job
<1>3. LimitInForce' /\ KindIsSeat' /\ CapInForce'
  BY <1>2 DEF TypeOK, KindIsSeat, CapInForce, LimitInForce, billing
<1>4. SeatsReserved'
  BY <1>1, <1>2, GrantsKept
<1>5. Writing' = Writing \cup {r}
  BY <1>2 DEF Writing
<1>6. CrossedAreWriting'
  BY <1>5 DEF CrossedAreWriting
<1>7. WritesKeepStanding'
  <2>1. Standing' = Standing /\ trialEndsAt' = trialEndsAt /\ now' = now
    BY DEF Standing, TrialOver, billing
  <2>2. Effective(subscription, trialEndsAt) = Standing
    BY DEF Effective, Standing, TrialOver
  <2> SUFFICES ASSUME NEW j \in Writing' \ crossed'
               PROVE  /\ job'[j].pc = "write" =>
                           /\ job'[j].trialEndsAt = trialEndsAt'
                           /\ Effective(job[j].subscription, trialEndsAt)' = Standing'
                      /\ job'[j].pc = "lapse" => Standing' = "PAST_DUE"
    BY DEF WritesKeepStanding
  <2>3. CASE j = r
    <3>1. Effective(job[j].subscription, trialEndsAt)' = Effective(subscription, trialEndsAt)
      BY <1>2, <2>1, <2>3 DEF Effective
    <3> QED
      BY <1>2, <2>1, <2>2, <2>3, <3>1
  <2>4. CASE j # r
    <3>1. job'[j] = job[j] /\ j \in Writing \ crossed
      BY <1>2, <1>5, <2>4 DEF Writing
    <3> QED
      BY <2>1, <3>1 DEF WritesKeepStanding, Effective
  <2> QED
    BY <2>3, <2>4
<1> QED
  BY <1>1, <1>3, <1>4, <1>6, <1>7

LEMMA SelectExpiredTrialsInv ==
  ASSUME IInv, NEW j \in Jobs, SelectExpiredTrials(j)
  PROVE  IInv'
<1> USE RequestCount DEF IInv, SelectExpiredTrials, At, Goto
<1>1. TypeOK'
  BY DEF TypeOK, billing, Job, Pc
<1>2. /\ job[j].pc = "idle" /\ job'[j].pc = "lapse"
      /\ \A i \in Jobs \ {j} : job'[i] = job[i]
  BY DEF TypeOK, Job
<1>3. LimitInForce' /\ KindIsSeat' /\ CapInForce'
  BY <1>2 DEF TypeOK, KindIsSeat, CapInForce, LimitInForce, billing
<1>4. SeatsReserved'
  BY <1>1, <1>2, GrantsKept
<1>5. Writing' = Writing \cup {j}
  BY <1>2 DEF Writing
<1>6. CrossedAreWriting'
  BY <1>5 DEF CrossedAreWriting
<1>7. WritesKeepStanding'
  <2>1. Standing' = "PAST_DUE" /\ Standing' = Standing /\ trialEndsAt' = trialEndsAt /\ now' = now
    BY DEF Standing, TrialOver, billing
  <2> QED
    BY <1>2, <1>5, <2>1 DEF WritesKeepStanding, Effective
<1> QED
  BY <1>1, <1>3, <1>4, <1>6, <1>7

\* A write that is not crossed leaves the standing as it is.
LEMMA WriteKeepsStanding ==
  ASSUME IInv, NEW j \in Jobs, j \notin crossed,
         (j \in Requests /\ WriteSettings(j)) \/ LapseTrials(j)
  PROVE  Standing' = Standing /\ trialEndsAt' = trialEndsAt
<1>1. j \in Writing \ crossed
  BY DEF WriteSettings, LapseTrials, At, Writing
<1>2. CASE j \in Requests /\ WriteSettings(j)
  BY <1>1, <1>2 DEF IInv, WritesKeepStanding, WriteSettings, At, Standing, TrialOver, Effective
<1>3. CASE LapseTrials(j)
  BY <1>1, <1>3 DEF IInv, WritesKeepStanding, LapseTrials, At, Standing, TrialOver
<1> QED
  BY <1>2, <1>3

LEMMA WriteInv ==
  ASSUME IInv, NEW j \in Jobs, (j \in Requests /\ WriteSettings(j)) \/ LapseTrials(j)
  PROVE  IInv'
<1> USE RequestCount, IdleFields DEF IInv
<1>1. /\ job[j].pc \in {"write", "lapse"} /\ Finish(j) /\ Spread(j)
      /\ UNCHANGED <<limit, now, seats, topLimit>>
  BY DEF WriteSettings, LapseTrials, At
<1>2. job'[j].pc = "idle" /\ \A i \in Jobs \ {j} : job'[i] = job[i]
  BY <1>1 DEF Finish, TypeOK
<1>3. Writing' = Writing \ {j} /\ j \in Writing /\ Writing \subseteq Jobs
  BY <1>1, <1>2 DEF Writing
<1>4. TypeOK'
  <2>1. job' \in [Jobs -> Job]
    BY <1>1 DEF Finish, TypeOK
  <2>2. crossed' \subseteq Jobs
    BY <1>1, <1>3 DEF Spread, TypeOK
  <2>3. subscription' \in SubscriptionStatus /\ trialEndsAt' \in Nat
    BY DEF WriteSettings, LapseTrials, TypeOK, Job, SubscriptionStatus
  <2> QED
    BY <2>1, <2>2, <2>3 DEF WriteSettings, LapseTrials, TypeOK
<1>5. LimitInForce' /\ KindIsSeat' /\ CapInForce'
  BY <1>1, <1>2 DEF KindIsSeat, CapInForce, LimitInForce
<1>6. SeatsReserved'
  BY <1>1, <1>2, <1>4, GrantsKept
<1>7. CASE j \in crossed
  <2>1. crossed' = Writing'
    BY <1>1, <1>3, <1>7 DEF Spread
  <2> QED
    BY <1>4, <1>5, <1>6, <2>1 DEF CrossedAreWriting, WritesKeepStanding
<1>8. CASE j \notin crossed
  <2>1. crossed' = crossed
    BY <1>1, <1>8 DEF Spread
  <2>2. Standing' = Standing /\ trialEndsAt' = trialEndsAt
    BY <1>8, WriteKeepsStanding
  <2>3. WritesKeepStanding'
    BY <1>1, <1>2, <1>3, <2>1, <2>2 DEF WritesKeepStanding, Effective
  <2>4. CrossedAreWriting'
    BY <1>3, <1>8, <2>1 DEF CrossedAreWriting
  <2> QED
    BY <1>4, <1>5, <1>6, <2>3, <2>4
<1> QED
  BY <1>7, <1>8

LEMMA TickInv ==
  ASSUME IInv, Tick
  PROVE  IInv'
<1> USE DEF IInv, Tick
<1>1. TypeOK'
  BY DEF TypeOK, billing
<1>2. LimitInForce' /\ KindIsSeat' /\ CapInForce'
  BY DEF KindIsSeat, CapInForce, LimitInForce, billing
<1>3. SeatsReserved'
  <2>1. \A k \in SeatKinds : seats'[k] <= seats[k] /\ topLimit[k] <= topLimit'[k]
    BY DEF TypeOK
  <2> QED
    BY <1>1, <2>1, JobsKept
<1>4. Writing' = Writing
  BY DEF Writing
<1>5. now \in Nat /\ trialEndsAt \in Nat
  BY DEF TypeOK
<1>6. WritesKeepStanding'
  <2>1. Standing = "PAST_DUE" => Standing' = "PAST_DUE"
    BY <1>5 DEF Standing, TrialOver, billing
  <2>2. ASSUME NEW j \in Writing \ crossed
        PROVE  /\ job[j].pc = "write" =>
                    /\ job[j].trialEndsAt = trialEndsAt
                    /\ Effective(job[j].subscription, trialEndsAt)' = Standing'
               /\ job[j].pc = "lapse" => Standing' = "PAST_DUE"
    <3>1. CASE job[j].pc = "write"
      <4>1. /\ job[j].trialEndsAt = trialEndsAt
            /\ Effective(job[j].subscription, trialEndsAt) = Standing
        BY <3>1 DEF WritesKeepStanding
      <4>2. Effective(job[j].subscription, trialEndsAt)' = Standing'
        BY <1>5, <4>1 DEF Effective, Standing, TrialOver, billing
      <4> QED
        BY <3>1, <4>1, <4>2
    <3>2. CASE job[j].pc # "write"
      BY <2>1, <3>2 DEF WritesKeepStanding
    <3> QED
      BY <3>1, <3>2
  <2> QED
    BY <1>4, <2>2 DEF WritesKeepStanding, billing, Effective
<1> QED
  BY <1>1, <1>2, <1>3, <1>4, <1>6 DEF CrossedAreWriting

LEMMA AbortInv ==
  ASSUME IInv, NEW j \in Jobs, Abort(j)
  PROVE  IInv'
<1> USE RequestCount, IdleFields DEF IInv, Abort, Finish
<1>1. TypeOK'
  BY DEF TypeOK, billing
<1>2. job'[j].pc = "idle" /\ \A i \in Jobs \ {j} : job'[i] = job[i]
  BY DEF TypeOK
<1>3. LimitInForce' /\ KindIsSeat' /\ CapInForce'
  BY <1>2 DEF KindIsSeat, CapInForce, LimitInForce, billing
<1>4. Writing' = Writing \ {j}
  BY <1>2 DEF Writing
<1>5. CrossedAreWriting' /\ WritesKeepStanding'
  <2>1. Standing' = Standing /\ trialEndsAt' = trialEndsAt /\ now' = now
    BY DEF Standing, TrialOver, billing
  <2> QED
    BY <1>2, <1>4, <2>1 DEF CrossedAreWriting, WritesKeepStanding, Effective, Writing
<1>6. SeatsReserved'
  <2>1. CASE j \in Requests /\ job[j].pc = "create"
    <3>1. \A k \in SeatKinds : \A q \in Requests \ {j} : job'[q] = job[q]
      BY <1>2
    <3> SUFFICES ASSUME NEW k \in SeatKinds
                 PROVE  \/ Granted(k)' = {} /\ seats'[k] <= topLimit'[k] + (N - 1) * MaxBatch
                        \/ \E q \in Granted(k)' :
                             seats'[k] + job'[q].size + (Cardinality(Granted(k)') - 1) * MaxBatch
                               <= topLimit'[k] + (N - 1) * MaxBatch
      BY DEF SeatsReserved, N
    <3>2. seats'[k] <= seats[k] /\ topLimit[k] <= topLimit'[k] /\ topLimit'[k] = topLimit[k]
      BY DEF TypeOK
    <3>3. CASE job[j].kind = k
      <4>1. j \in Granted(k) /\ Granted(k)' = Granted(k) \ {j}
        BY <1>2, <2>1, <3>3 DEF Granted
      <4>2. \A q \in Granted(k) \ {j} : job'[q].size = job[q].size
        BY <1>2 DEF Granted
      <4>3. seats'[k] <= seats[k] + job[j].size
        BY <3>2 DEF TypeOK, Job
      <4> QED
        BY <1>1, <3>2, <4>1, <4>2, <4>3, ReservedWhenGrantEnds
    <3>4. CASE job[j].kind # k
      <4>1. Granted(k)' = Granted(k) /\ \A q \in Granted(k) : job'[q].size = job[q].size
        BY <1>2, <2>1, <3>4 DEF Granted
      <4> QED
        BY <1>1, <3>2, <4>1, ReservedWhenSeatsKept
    <3> QED
      BY <3>3, <3>4
  <2>2. CASE ~(j \in Requests /\ job[j].pc = "create")
    <3> SUFFICES ASSUME NEW k \in SeatKinds
                 PROVE  \/ Granted(k)' = {} /\ seats'[k] <= topLimit'[k] + (N - 1) * MaxBatch
                        \/ \E q \in Granted(k)' :
                             seats'[k] + job'[q].size + (Cardinality(Granted(k)') - 1) * MaxBatch
                               <= topLimit'[k] + (N - 1) * MaxBatch
      BY DEF SeatsReserved, N
    <3>1. Granted(k)' = Granted(k) /\ \A q \in Granted(k) : job'[q].size = job[q].size
      BY <1>2, <2>2 DEF Granted
    <3>2. seats'[k] <= seats[k] /\ topLimit[k] <= topLimit'[k]
      BY DEF TypeOK
    <3> QED
      BY <1>1, <3>1, <3>2, ReservedWhenSeatsKept
  <2> QED
    BY <2>1, <2>2
<1> QED
  BY <1>1, <1>3, <1>5, <1>6

-----------------------------------------------------------------------------
(* Theorems.                                                                *)

LEMMA StepInv == IInv /\ [Next]_vars => IInv'
<1> SUFFICES ASSUME IInv, [Next]_vars
             PROVE  IInv'
  OBVIOUS
<1>1. CASE UNCHANGED vars
  <2>1. TypeOK' /\ LimitInForce' /\ KindIsSeat' /\ CapInForce'
    BY <1>1 DEF vars, IInv, TypeOK, LimitInForce, KindIsSeat, CapInForce
  <2>2. SeatsReserved'
    <3>1. \A k \in SeatKinds : seats'[k] <= seats[k] /\ topLimit[k] <= topLimit'[k]
      BY <1>1 DEF vars, IInv, TypeOK
    <3> QED
      BY <1>1, <2>1, <3>1, JobsKept DEF vars
  <2>3. CrossedAreWriting' /\ WritesKeepStanding'
    <3>1. Writing' = Writing
      BY <1>1 DEF vars, Writing
    <3> QED
      BY <1>1, <3>1, WritesUntouched DEF vars, billing, IInv
  <2> QED
    BY <2>1, <2>2, <2>3 DEF IInv
<1>2. CASE \E r \in Requests :
             \/ \E k \in SeatKinds, n \in 1..MaxBatch : StartSeats(r, k, n)
             \/ SeatStep(r)
             \/ SettingsStep(r)
  <2> PICK r \in Requests :
         \/ \E k \in SeatKinds, n \in 1..MaxBatch : StartSeats(r, k, n)
         \/ SeatStep(r)
         \/ SettingsStep(r)
    BY <1>2
  <2>1. CASE \E k \in SeatKinds, n \in 1..MaxBatch : StartSeats(r, k, n)
    BY <2>1, StartSeatsInv
  <2>2. CASE SeatStep(r)
    BY <2>2, CheckModuleInv, ReadLimitInv, CountSeatsInv, TakeSeatsInv DEF SeatStep
  <2>3. CASE SettingsStep(r)
    BY <2>3, StartSettingsInv, ReadExistingInv, WriteInv, RequestCount DEF SettingsStep
  <2> QED
    BY <2>1, <2>2, <2>3
<1>3. CASE \E k \in SeatKinds, n \in 1..MaxBatch : ReleaseSeats(k, n)
  <2>1. \A n \in 1..MaxBatch : n \in Nat
    BY SizeAssumption
  <2> QED
    BY <1>3, <2>1, ReleaseSeatsInv
<1>4. CASE \E p \in Payloads : PlatformUpdate(p)
  BY <1>4, PlatformUpdateInv
<1>5. CASE \E j \in Jobs : SelectExpiredTrials(j) \/ LapseTrials(j) \/ Abort(j)
  BY <1>5, SelectExpiredTrialsInv, WriteInv, AbortInv
<1>6. CASE Tick
  BY <1>6, TickInv
<1> QED
  BY <1>1, <1>2, <1>3, <1>4, <1>5, <1>6 DEF Next

\* The inductive invariant: what the next theorems follow from.
THEOREM Inductive == Spec => []IInv
  BY InitInv, StepInv, PTL DEF Spec

\* Every variable keeps its type, seats never go negative.
THEOREM TypeCorrect == Spec => []TypeOK
<1>1. IInv => TypeOK
  BY DEF IInv
<1> QED
  BY <1>1, Inductive, PTL

\* The rows counted against a limit exceed the largest limit ever in force by at
\* most one largest import for every request but one.
THEOREM LimitsHold == Spec => []SeatsBounded
<1>1. IInv => SeatsBounded
  <2> SUFFICES ASSUME IInv, NEW k \in SeatKinds
               PROVE  seats[k] <= topLimit[k] + (N - 1) * MaxBatch
    BY DEF SeatsBounded, N
  <2> DEFINE B == (N - 1) * MaxBatch
             C == (Cardinality(Granted(k)) - 1) * MaxBatch
  <2>1. seats[k] \in Nat /\ topLimit[k] \in Nat
    BY DEF IInv, TypeOK
  <2>2. B \in Int
    BY RequestCount, SizeAssumption
  <2>3. CASE Granted(k) # {}
    <3>1. PICK r \in Granted(k) : seats[k] + job[r].size + C <= topLimit[k] + B
      BY <2>3 DEF IInv, SeatsReserved
    <3>2. job[r].size \in Nat
      BY RequestCount DEF IInv, TypeOK, Job, Granted
    <3>3. C \in Nat
      BY <2>3, GrantedFinite, SizeAssumption
    <3> HIDE DEF B, C
    <3>4. seats[k] <= topLimit[k] + B
      BY <2>1, <2>2, <3>1, <3>2, <3>3
    <3> QED
      BY <3>4 DEF B
  <2>4. CASE Granted(k) = {}
    BY <2>4 DEF IInv, SeatsReserved
  <2> QED
    BY <2>3, <2>4
<1> QED
  BY <1>1, Inductive, PTL

\* The standing of a tenant moves only by a platform edit, by the end of its
\* trial, or by a write whose values are older than an edit.
THEOREM StandingMoves == Spec => StandingMovesForCause
<1> DEFINE Cause == \/ edits' # edits
                    \/ now' # now /\ Standing' = "PAST_DUE"
                    \/ \E j \in crossed : job'[j].pc = "idle"
<1>1. IInv /\ [Next]_vars => [Standing' # Standing => Cause]_vars
  <2> SUFFICES ASSUME IInv, Next, Standing' # Standing
               PROVE  Cause
    BY DEF vars
  <2>1. CASE \E p \in Payloads : PlatformUpdate(p)
    BY <2>1 DEF PlatformUpdate, IInv, TypeOK
  <2>2. CASE Tick
    BY <2>2 DEF Tick, billing, Standing, TrialOver, IInv, TypeOK
  <2>3. ASSUME NEW j \in Jobs, (j \in Requests /\ WriteSettings(j)) \/ LapseTrials(j)
        PROVE  Cause
    <3>1. job'[j].pc = "idle"
      BY <2>3, IdleFields DEF WriteSettings, LapseTrials, Finish, IInv, TypeOK
    <3>2. j \in crossed
      BY <2>3, WriteKeepsStanding
    <3> QED
      BY <3>1, <3>2
  <2>4. CASE UNCHANGED <<billing, now>>
    BY <2>4 DEF billing, Standing, TrialOver
  <2> QED
    BY <2>1, <2>2, <2>3, <2>4, RequestCount
       DEF Next, SeatStep, SettingsStep, StartSeats, CheckModule, ReadLimit, CountSeats,
           TakeSeats, ReleaseSeats, StartSettings, ReadExisting, SelectExpiredTrials, Abort
<1> QED
  BY <1>1, Inductive, PTL DEF Spec, StandingMovesForCause

-----------------------------------------------------------------------------
(* The seed script: what its steps are and where they stand.                 *)

DemoTables ==
  <<"user", "userRole", "reminderSetting", "session", "batch", "subject", "teacher",
    "batchSubject", "timetable", "student", "studentBatch", "feePlan", "feeRecord",
    "attendance", "exam", "examSubject", "examResult", "examResultItem", "portalAccount",
    "reminderTemplate">>

\* "quiz" stands for the step that creates an assessment whole.
NorthfieldTables ==
  <<"user", "userRole", "billing", "reminderSetting", "classSetting", "session", "batch",
    "subject", "teacher", "batchSubject", "timetable", "student", "studentBatch",
    "portalAccount", "feePlan", "feeRecord", "attendance", "studentDocument", "asset",
    "reminderTemplate", "reminderRule", "reminderLog", "reminderSchedule", "classSession",
    "participant", "exam", "examSubject", "examResult", "examResultItem", "assignment",
    "submission", "quiz", "quiz", "attempt", "answer", "assessmentResult", "attempt",
    "answer", "assessmentResult">>

Making(t) == IF t = "quiz" THEN Quiz ELSE Create(t)

LEMMA DemoSteps ==
  /\ Len(Rebuild("demo")) = 20
  /\ \A i \in 1 .. 20 : Rebuild("demo")[i] = Making(DemoTables[i])
  BY DEF Rebuild, DemoOffice, DemoTeaching, DemoPupils, DemoMarks, DemoTables, Making

LEMMA NorthfieldSteps ==
  /\ Len(Rebuild("northfield")) = 39
  /\ \A i \in 1 .. 39 : Rebuild("northfield")[i] = Making(NorthfieldTables[i])
  BY DEF Rebuild, NorthfieldOffice, NorthfieldSubjects, NorthfieldTeaching, NorthfieldPupils,
     NorthfieldPapers, NorthfieldClasses, NorthfieldMarks, NorthfieldQuiz, NorthfieldWriting,
     NorthfieldAnswers, NorthfieldReviews, NorthfieldTables, Making

Step ==
  {Create(t) : t \in Tables} \cup {Upsert(t) : t \in Tables} \cup {Delete(t) : t \in Tables}
  \cup {[op |-> "deleteNamed", on |-> "defaultRule"], Quiz, [op |-> "revoke", on |-> Custom]}
  \cup {Open(d) : d \in Doors} \cup {Grant(r, q) : r \in Roles, q \in Permissions}

LEMMA TablesNamed ==
  /\ DefaultTables \subseteq Tables /\ Rebuilt \subseteq Tables
  /\ \A i \in 1 .. 37 : ResetOrder[i] \in Rebuilt
  /\ \A i \in 1 .. 20 : DemoTables[i] \in Rebuilt
  /\ \A i \in 1 .. 39 : NorthfieldTables[i] \in Rebuilt \cup {"quiz"}
  /\ {"assessment", "question", "option"} \subseteq Rebuilt
  BY DEF Tables, Rebuilt, ResetOrder, DemoTables, NorthfieldTables

LEMMA PartsTyped ==
  /\ Prepare \in Seq(Step) /\ Reset \in Seq(Step)
  /\ \A p \in {"demo", "northfield"} : Rebuild(p) \in Seq(Step)
<1>1. \A t \in Tables : Create(t) \in Step /\ Delete(t) \in Step /\ Upsert(t) \in Step
  BY DEF Step
<1>2. \A r \in Roles, q \in Permissions : Grant(r, q) \in Step
  BY DEF Step
<1>3. \A d \in Doors : Open(d) \in Step
  BY DEF Step
<1>4. {[op |-> "deleteNamed", on |-> "defaultRule"], Quiz, [op |-> "revoke", on |-> Custom]}
        \subseteq Step
  BY DEF Step
<1>5. Prepare \in Seq(Step)
  BY <1>1, <1>2, <1>3, <1>4, TablesNamed
     DEF Prepare, Opening, GrantAll, Grants, DefaultAdmins, DefaultReminders,
         Roles, Permissions, Doors, DefaultTables
<1>6. Reset \in Seq(Step)
  BY <1>1, TablesNamed DEF Reset, ResetOrder
<1>7. Rebuild("demo") \in Seq(Step)
  BY <1>1, TablesNamed DEF Rebuild, DemoOffice, DemoTeaching, DemoPupils, DemoMarks, DemoTables
<1>8. Rebuild("northfield") \in Seq(Step)
  BY <1>1, <1>4, TablesNamed
     DEF Rebuild, NorthfieldOffice, NorthfieldSubjects, NorthfieldTeaching, NorthfieldPupils,
         NorthfieldPapers, NorthfieldClasses, NorthfieldMarks, NorthfieldQuiz,
         NorthfieldWriting, NorthfieldAnswers, NorthfieldReviews, NorthfieldTables
<1> QED
  BY <1>5, <1>6, <1>7, <1>8

LEMMA PrepareSteps ==
  /\ Len(Prepare) = 19
  /\ Prepare[1] = Open("defaultOrganization")
  /\ Prepare[2] = [op |-> "revoke", on |-> Custom]
  /\ \A i \in 1 .. 10 : Prepare[i + 2] = Grants[i]
  /\ Prepare[13] = Upsert("defaultUser") /\ Prepare[14] = Open("defaultAdmin")
  /\ Prepare[15] = Upsert("defaultSetting") /\ Prepare[16] = Upsert("defaultTemplate")
  /\ Prepare[17] = [op |-> "deleteNamed", on |-> "defaultRule"]
  /\ Prepare[18] = Create("defaultRule") /\ Prepare[19] = Open("organization")
  BY DEF Prepare, Opening, GrantAll, Grants, DefaultAdmins, DefaultReminders

LEMMA Joined ==
  ASSUME NEW X, NEW s \in Seq(X), NEW t \in Seq(X)
  PROVE  /\ s \o t \in Seq(X) /\ Len(s \o t) = Len(s) + Len(t)
         /\ \A i \in 1 .. Len(s) : (s \o t)[i] = s[i]
         /\ \A i \in Len(s) + 1 .. Len(s) + Len(t) : (s \o t)[i] = t[i - Len(s)]
  OBVIOUS

\* Nineteen steps, thirty-seven deletions, and what the organization is rebuilt with.
LEMMA Layout ==
  ASSUME NEW p \in {"demo", "northfield"}
  PROVE  /\ Len(ScriptOf(p)) = 56 + Len(Rebuild(p)) /\ Len(Rebuild(p)) \in Nat
         /\ \A k \in 1 .. 19 : ScriptOf(p)[k] = Prepare[k]
         /\ \A k \in 20 .. 56 : ScriptOf(p)[k] = Delete(ResetOrder[k - 19])
         /\ \A k \in 57 .. 56 + Len(Rebuild(p)) : ScriptOf(p)[k] = Rebuild(p)[k - 56]
<1>1. Len(Reset) = 37 /\ \A i \in 1 .. 37 : Reset[i] = Delete(ResetOrder[i])
  BY DEF Reset, ResetOrder
<1> DEFINE A == Prepare \o Reset
           B == Rebuild(p)
<1>2. /\ A \in Seq(Step) /\ Len(A) = Len(Prepare) + Len(Reset)
      /\ \A i \in 1 .. Len(Prepare) : A[i] = Prepare[i]
      /\ \A i \in Len(Prepare) + 1 .. Len(Prepare) + Len(Reset) : A[i] = Reset[i - Len(Prepare)]
  BY PartsTyped, Joined
<1>3. B \in Seq(Step)
  BY PartsTyped
<1>4. A \in Seq(Step)
  BY <1>2
<1>5. ScriptOf(p) = A \o B
  BY DEF ScriptOf
<1> HIDE DEF A, B
<1>6. /\ Len(A \o B) = Len(A) + Len(B)
      /\ \A i \in 1 .. Len(A) : (A \o B)[i] = A[i]
      /\ \A i \in Len(A) + 1 .. Len(A) + Len(B) : (A \o B)[i] = B[i - Len(A)]
  BY <1>3, <1>4, Joined
<1> DEFINE C == A \o B
<1>7. /\ Len(C) = Len(A) + Len(B)
      /\ \A i \in 1 .. Len(A) : C[i] = A[i]
      /\ \A i \in Len(A) + 1 .. Len(A) + Len(B) : C[i] = B[i - Len(A)]
  BY <1>6
<1> HIDE DEF C
<1>8. Len(A) = 56 /\ Len(Prepare) = 19 /\ Len(Reset) = 37 /\ Len(B) \in Nat
  BY <1>1, <1>2, <1>3, PrepareSteps
<1>9. Len(C) = 56 + Len(B)
  BY <1>7, <1>8
<1> DEFINE P == Prepare
           R == Reset
<1>10. /\ \A i \in 1 .. Len(P) : A[i] = P[i]
       /\ \A i \in Len(P) + 1 .. Len(P) + Len(R) : A[i] = R[i - Len(P)]
       /\ Len(P) = 19 /\ Len(R) = 37 /\ \A i \in 1 .. 37 : R[i] = Delete(ResetOrder[i])
  BY <1>1, <1>2, <1>8
<1> HIDE DEF P, R
<1>11. \A k \in 1 .. 19 : A[k] = P[k]
  BY <1>10
<1>12. \A k \in 20 .. 56 : A[k] = R[k - 19]
  BY <1>10
<1>13. \A k \in 1 .. 56 : C[k] = A[k]
  BY <1>7, <1>8
<1>14. \A k \in 1 .. 19 : C[k] = Prepare[k]
  BY <1>11, <1>13 DEF P
<1>15. \A k \in 20 .. 56 : C[k] = Delete(ResetOrder[k - 19])
  BY <1>10, <1>12, <1>13
<1>16. \A k \in 57 .. 56 + Len(B) : C[k] = B[k - 56]
  BY <1>7, <1>8
<1> QED
  BY <1>5, <1>8, <1>9, <1>14, <1>15, <1>16 DEF B, C

LEMMA ReferencesOf ==
  /\ \A t \in {"user", "reminderSetting", "session", "batch", "subject", "teacher", "student",
               "reminderTemplate", "billing", "classSetting"} : References(t) = {}
  /\ References("userRole") \subseteq {"user"}
  /\ References("batchSubject") \subseteq {"batch", "subject", "session", "teacher"}
  /\ References("timetable") \subseteq {"batch", "subject", "session", "teacher"}
  /\ References("studentBatch") \subseteq {"student", "batch"}
  /\ References("feePlan") \subseteq {"student", "batch"}
  /\ References("feeRecord") \subseteq {"student", "feePlan", "batch"}
  /\ References("attendance") \subseteq {"student", "batch"}
  /\ References("exam") \subseteq {"batch", "session", "teacher"}
  /\ References("examSubject") \subseteq {"exam", "subject"}
  /\ References("examResult") \subseteq {"exam", "student", "batch", "session"}
  /\ References("examResultItem") \subseteq {"examResult", "examSubject", "subject"}
  /\ References("portalAccount") \subseteq {"student"}
  /\ References("studentDocument") \subseteq {"student", "user"}
  /\ References("asset") \subseteq {"user"}
  /\ References("reminderRule") \subseteq {"reminderTemplate"}
  /\ References("reminderLog") \subseteq {"student", "feeRecord", "user"}
  /\ References("reminderSchedule") \subseteq {"reminderRule", "reminderTemplate", "student",
                                               "feeRecord", "reminderLog"}
  /\ References("classSession") \subseteq {"timetable", "batch", "subject", "session",
                                           "teacher"}
  /\ References("participant") \subseteq {"classSession", "student"}
  /\ References("assignment") \subseteq {"batch", "subject", "session", "teacher"}
  /\ References("submission") \subseteq {"assignment", "student", "teacher"}
  /\ References("attempt") \subseteq {"assessment", "student"}
  /\ References("answer") \subseteq {"attempt", "question", "teacher", "option"}
  /\ References("assessmentResult") \subseteq {"assessment", "attempt", "student"}
  /\ References("assessment") \subseteq {"batch", "subject", "session", "teacher"}
  /\ References("question") \subseteq {"assessment", "subject"}
  /\ References("option") \subseteq {"question"}
  /\ References("defaultRule") \subseteq {"defaultTemplate"}
  BY DEF References, Cascades, Loose

\* The tables written by the steps of s before the j-th.
MadeTo(s, j) == UNION {Written(s[i]) : i \in 1 .. j - 1}

\* A step creates tables of the organization whose references are made before it.
InOrder(s) ==
  \A j \in 1 .. Len(s) :
    /\ s[j].op \in {"create", "createQuiz"} /\ Written(s[j]) \subseteq Rebuilt
    /\ \A t \in Written(s[j]) : References(t) \subseteq Written(s[j]) \cup MadeTo(s, j)

LEMMA MakingWrites ==
  /\ \A t : t # "quiz" => Making(t).op = "create" /\ Written(Making(t)) = {t}
  /\ Making("quiz").op = "createQuiz"
  /\ Written(Making("quiz")) = {"assessment", "question", "option"}
  BY DEF Making, Create, Quiz, Written

LEMMA DemoInOrder == InOrder(Rebuild("demo"))
<1> DEFINE s == Rebuild("demo")
<1>1. \A i \in 1 .. 20 : s[i] = Making(DemoTables[i])
  BY DemoSteps
<1>2. Len(s) = 20
  BY DemoSteps
<1> HIDE DEF s
<1>3. \A i, j \in 1 .. 20 : i < j => Written(s[i]) \subseteq MadeTo(s, j)
  BY DEF MadeTo
<1>4. SUFFICES ASSUME NEW j \in 1 .. 20
      PROVE  /\ s[j].op \in {"create", "createQuiz"} /\ Written(s[j]) \subseteq Rebuilt
             /\ \A t \in Written(s[j]) : References(t) \subseteq Written(s[j]) \cup MadeTo(s, j)
  BY <1>2 DEF InOrder, s
<1>5. /\ \A t : t # "quiz" => Making(t).op = "create" /\ Written(Making(t)) = {t}
      /\ Making("quiz").op = "createQuiz"
      /\ Written(Making("quiz")) = {"assessment", "question", "option"}
  BY MakingWrites
<1>6. /\ 1 < j => "user" \in MadeTo(s, j)
      /\ 2 < j => "userRole" \in MadeTo(s, j)
      /\ 3 < j => "reminderSetting" \in MadeTo(s, j)
      /\ 4 < j => "session" \in MadeTo(s, j)
      /\ 5 < j => "batch" \in MadeTo(s, j)
      /\ 6 < j => "subject" \in MadeTo(s, j)
      /\ 7 < j => "teacher" \in MadeTo(s, j)
      /\ 8 < j => "batchSubject" \in MadeTo(s, j)
      /\ 9 < j => "timetable" \in MadeTo(s, j)
      /\ 10 < j => "student" \in MadeTo(s, j)
      /\ 11 < j => "studentBatch" \in MadeTo(s, j)
      /\ 12 < j => "feePlan" \in MadeTo(s, j)
      /\ 13 < j => "feeRecord" \in MadeTo(s, j)
      /\ 14 < j => "attendance" \in MadeTo(s, j)
      /\ 15 < j => "exam" \in MadeTo(s, j)
      /\ 16 < j => "examSubject" \in MadeTo(s, j)
      /\ 17 < j => "examResult" \in MadeTo(s, j)
      /\ 18 < j => "examResultItem" \in MadeTo(s, j)
      /\ 19 < j => "portalAccount" \in MadeTo(s, j)
      /\ 20 < j => "reminderTemplate" \in MadeTo(s, j)
  BY <1>1, <1>3, <1>5 DEF DemoTables
<1>7. Written(s[j]) \subseteq Rebuilt /\ s[j].op \in {"create", "createQuiz"}
  BY <1>1, <1>5 DEF DemoTables, Rebuilt, ResetOrder
<1>8. \A t \in Written(s[j]) : References(t) \subseteq Written(s[j]) \cup MadeTo(s, j)
  BY <1>1, <1>5, <1>6, ReferencesOf DEF DemoTables
<1> QED
  BY <1>7, <1>8

LEMMA NorthfieldInOrder == InOrder(Rebuild("northfield"))
<1> DEFINE s == Rebuild("northfield")
<1>1. \A i \in 1 .. 39 : s[i] = Making(NorthfieldTables[i])
  BY NorthfieldSteps
<1>2. Len(s) = 39
  BY NorthfieldSteps
<1> HIDE DEF s
<1>3. \A i, j \in 1 .. 39 : i < j => Written(s[i]) \subseteq MadeTo(s, j)
  BY DEF MadeTo
<1>4. SUFFICES ASSUME NEW j \in 1 .. 39
      PROVE  /\ s[j].op \in {"create", "createQuiz"} /\ Written(s[j]) \subseteq Rebuilt
             /\ \A t \in Written(s[j]) : References(t) \subseteq Written(s[j]) \cup MadeTo(s, j)
  BY <1>2 DEF InOrder, s
<1>5. /\ \A t : t # "quiz" => Making(t).op = "create" /\ Written(Making(t)) = {t}
      /\ Making("quiz").op = "createQuiz"
      /\ Written(Making("quiz")) = {"assessment", "question", "option"}
  BY MakingWrites
<1>6. /\ 1 < j => "user" \in MadeTo(s, j)
      /\ 2 < j => "userRole" \in MadeTo(s, j)
      /\ 3 < j => "billing" \in MadeTo(s, j)
      /\ 4 < j => "reminderSetting" \in MadeTo(s, j)
      /\ 5 < j => "classSetting" \in MadeTo(s, j)
      /\ 6 < j => "session" \in MadeTo(s, j)
      /\ 7 < j => "batch" \in MadeTo(s, j)
      /\ 8 < j => "subject" \in MadeTo(s, j)
      /\ 9 < j => "teacher" \in MadeTo(s, j)
      /\ 10 < j => "batchSubject" \in MadeTo(s, j)
      /\ 11 < j => "timetable" \in MadeTo(s, j)
      /\ 12 < j => "student" \in MadeTo(s, j)
      /\ 13 < j => "studentBatch" \in MadeTo(s, j)
      /\ 14 < j => "portalAccount" \in MadeTo(s, j)
      /\ 15 < j => "feePlan" \in MadeTo(s, j)
      /\ 16 < j => "feeRecord" \in MadeTo(s, j)
      /\ 17 < j => "attendance" \in MadeTo(s, j)
      /\ 18 < j => "studentDocument" \in MadeTo(s, j)
      /\ 19 < j => "asset" \in MadeTo(s, j)
      /\ 20 < j => "reminderTemplate" \in MadeTo(s, j)
      /\ 21 < j => "reminderRule" \in MadeTo(s, j)
      /\ 22 < j => "reminderLog" \in MadeTo(s, j)
      /\ 23 < j => "reminderSchedule" \in MadeTo(s, j)
      /\ 24 < j => "classSession" \in MadeTo(s, j)
      /\ 25 < j => "participant" \in MadeTo(s, j)
      /\ 26 < j => "exam" \in MadeTo(s, j)
      /\ 27 < j => "examSubject" \in MadeTo(s, j)
      /\ 28 < j => "examResult" \in MadeTo(s, j)
      /\ 29 < j => "examResultItem" \in MadeTo(s, j)
      /\ 30 < j => "assignment" \in MadeTo(s, j)
      /\ 31 < j => "submission" \in MadeTo(s, j)
      /\ 32 < j => "assessment" \in MadeTo(s, j)
      /\ 32 < j => "question" \in MadeTo(s, j)
      /\ 32 < j => "option" \in MadeTo(s, j)
      /\ 34 < j => "attempt" \in MadeTo(s, j)
      /\ 35 < j => "answer" \in MadeTo(s, j)
      /\ 36 < j => "assessmentResult" \in MadeTo(s, j)
  BY <1>1, <1>3, <1>5 DEF NorthfieldTables
<1>7. Written(s[j]) \subseteq Rebuilt /\ s[j].op \in {"create", "createQuiz"}
  BY <1>1, <1>5 DEF NorthfieldTables, Rebuilt, ResetOrder
<1>8. \A t \in Written(s[j]) : References(t) \subseteq Written(s[j]) \cup MadeTo(s, j)
  BY <1>1, <1>5, <1>6, ReferencesOf DEF NorthfieldTables
<1> QED
  BY <1>7, <1>8

LEMMA RebuildInOrder ==
  ASSUME NEW p \in {"demo", "northfield"}
  PROVE  InOrder(Rebuild(p)) /\ Len(Rebuild(p)) \in 1 .. 39
  BY DemoInOrder, NorthfieldInOrder, DemoSteps, NorthfieldSteps

LEMMA ScriptFollows ==
  ASSUME part \in {"demo", "northfield"} PROVE Script = ScriptOf(part)
  BY DEF Script, DemoScript, NorthfieldScript

-----------------------------------------------------------------------------
(* What the tables lose together.                                            *)

Apart(R) == \A e \in R : e[1] \in DefaultTables <=> e[2] \in DefaultTables

LEMMA DoublingApart == ASSUME NEW R, Apart(R) PROVE Apart(Doubled(R)) /\ R \subseteq Doubled(R)
  BY DEF Apart, Doubled

\* The default academy's rows and the demonstration organization's never fall together.
LEMMA FallsApart == Apart(Falls) /\ Cascades \subseteq Falls
<1>1. Apart(Cascades)
  BY DEF Apart, Cascades, DefaultTables
<1> QED
  BY <1>1, DoublingApart DEF Falls

LEMMA RebuiltApart == Rebuilt \cap DefaultTables = {}
  BY DEF Rebuilt, DefaultTables, ResetOrder

LEMMA ResetAll ==
  /\ Rebuilt = {ResetOrder[i] : i \in 1 .. 37} \cup {"userRole"}
  /\ ResetOrder[37] = "user" /\ <<"userRole", "user">> \in Falls
<1>1. <<"userRole", "user">> \in Cascades
  BY DEF Cascades
<1> QED
  BY <1>1, FallsApart DEF Rebuilt, ResetOrder

LEMMA EmptiedAt ==
  ASSUME NEW r, NEW t, NEW u \in Tables
  PROVE  /\ Emptied(r, t)[u] \in {r[u], {}}
         /\ u = t \/ <<u, t>> \in Falls => Emptied(r, t)[u] = {}
         /\ u \in DefaultTables /\ t \in Rebuilt => Emptied(r, t)[u] = r[u]
  BY FallsApart, RebuiltApart DEF Emptied, Apart

LEMMA MadeOneMore ==
  ASSUME NEW s, NEW j \in Nat, j >= 1
  PROVE  MadeTo(s, 1) = {} /\ MadeTo(s, j + 1) = MadeTo(s, j) \cup Written(s[j])
<1>1. 1 .. (j + 1) - 1 = (1 .. j - 1) \cup {j}
  OBVIOUS
<1>2. 1 .. 1 - 1 = {}
  OBVIOUS
<1> QED
  BY <1>1, <1>2 DEF MadeTo

-----------------------------------------------------------------------------
(* A run nobody disturbs: where it stands after its first k - 1 steps.       *)

Renewed(t) == "new" \in rows[t] /\ "old" \notin rows[t]

\* The default academy's rows are the run's own, or the office's.
DefaultsDone(k) ==
  /\ k > 13 => Renewed("defaultUser")
  /\ k > 15 => Renewed("defaultSetting")
  /\ k > 16 => Renewed("defaultTemplate")
  /\ k = 18 => "old" \notin rows["defaultRule"]
  /\ k > 18 => Renewed("defaultRule")

\* A role holds what it was granted since all was revoked.
GrantsDone(k) ==
  k > 2 =>
    /\ grants[Custom] = {}
    /\ \A r \in Roles :
         grants[r] = {q \in Permissions : \E i \in 1 .. 10 : i + 2 < k /\ Grants[i] = Grant(r, q)}

DoorsDone(k) ==
  /\ k > 1 => "defaultOrganization" \in active
  /\ k > 14 => "defaultAdmin" \in active
  /\ k > 19 => "organization" \in active

\* The tables are emptied one after the other, then hold what was made, and nothing else.
TablesDone(p, k) ==
  /\ k <= 57 => \A i \in 1 .. 37 : i + 19 < k => rows[ResetOrder[i]] = {}
  /\ k >= 57 => \A t \in Rebuilt :
       rows[t] = IF t \in MadeTo(Rebuild(p), k - 56) THEN {"new"} ELSE {}

RunInv(p, k) == DefaultsDone(k) /\ GrantsDone(k) /\ DoorsDone(k) /\ TablesDone(p, k)

SeedInv ==
  /\ SeedTypeOK /\ (at # 0 <=> outcome = "running")
  /\ at # 0 /\ ~disturbed => RunInv(part, at)
  /\ RerunRestores

LEMMA StepCases ==
  ASSUME NEW p \in {"demo", "northfield"}, NEW k \in 1 .. Len(ScriptOf(p))
  PROVE  \/ k = 1 /\ ScriptOf(p)[k] = Open("defaultOrganization")
         \/ k = 2 /\ ScriptOf(p)[k] = [op |-> "revoke", on |-> Custom]
         \/ \E i \in 1 .. 10 : k = i + 2 /\ ScriptOf(p)[k] = Grants[i]
         \/ k = 13 /\ ScriptOf(p)[k] = Upsert("defaultUser")
         \/ k = 14 /\ ScriptOf(p)[k] = Open("defaultAdmin")
         \/ k = 15 /\ ScriptOf(p)[k] = Upsert("defaultSetting")
         \/ k = 16 /\ ScriptOf(p)[k] = Upsert("defaultTemplate")
         \/ k = 17 /\ ScriptOf(p)[k] = [op |-> "deleteNamed", on |-> "defaultRule"]
         \/ k = 18 /\ ScriptOf(p)[k] = Create("defaultRule")
         \/ k = 19 /\ ScriptOf(p)[k] = Open("organization")
         \/ \E i \in 1 .. 37 : k = i + 19 /\ ScriptOf(p)[k] = Delete(ResetOrder[i])
         \/ \E j \in 1 .. Len(Rebuild(p)) : k = j + 56 /\ ScriptOf(p)[k] = Rebuild(p)[j]
<1> DEFINE n == Len(Rebuild(p))
<1>1. n \in Nat /\ Len(ScriptOf(p)) = 56 + n
  BY Layout
<1>2. CASE k <= 19
  <2>1. k \in 1 .. 19
    BY <1>1, <1>2
  <2>2. ScriptOf(p)[k] = Prepare[k]
    BY <2>1, Layout
  <2>3. CASE k \in 3 .. 12
    <3>1. k - 2 \in 1 .. 10 /\ k = (k - 2) + 2
      BY <2>3
    <3> QED
      BY <2>2, <3>1, PrepareSteps
  <2>4. CASE k \notin 3 .. 12
    <3>1. k \in {1, 2, 13, 14, 15, 16, 17, 18, 19}
      BY <2>1, <2>4
    <3> QED
      BY <2>2, <3>1, PrepareSteps
  <2> QED
    BY <2>3, <2>4
<1>3. CASE k \in 20 .. 56
  <2>1. k - 19 \in 1 .. 37 /\ k = (k - 19) + 19
    BY <1>3
  <2> QED
    BY <1>3, <2>1, Layout
<1>4. CASE k > 56
  <2>1. k - 56 \in 1 .. n /\ k = (k - 56) + 56 /\ k \in 57 .. 56 + n
    BY <1>1, <1>4
  <2> QED
    BY <2>1, Layout
<1> QED
  BY <1>1, <1>2, <1>3, <1>4

-----------------------------------------------------------------------------
(* What each kind of step leaves.                                            *)

\* What a step leaves behind, apart from where the run stands.
Effect(s) ==
  /\ ~Refused(s) /\ rows' = RowsAfter(s)
  /\ grants' = CASE s.op = "revoke" -> [r \in DOMAIN grants |-> {}]
                 [] s.op = "grant"  -> [grants EXCEPT ![s.on] = @ \cup {s.permission}]
                 [] OTHER -> grants
  /\ active' = active \cup (IF s.op = "open" THEN {s.on} ELSE {})
  /\ part' = part

LEMMA OpenLeaves ==
  ASSUME NEW d, Effect(Open(d))
  PROVE  rows' = rows /\ grants' = grants /\ active' = active \cup {d}
<1>1. Open(d).op = "open" /\ Open(d).on = d
  BY DEF Open
<1> QED
  BY <1>1 DEF Effect, RowsAfter

LEMMA RevokeLeaves ==
  ASSUME Effect([op |-> "revoke", on |-> Custom])
  PROVE  rows' = rows /\ grants' = [r \in DOMAIN grants |-> {}] /\ active' = active
  BY DEF Effect, RowsAfter

LEMMA GrantLeaves ==
  ASSUME NEW r, NEW q, Effect(Grant(r, q))
  PROVE  rows' = rows /\ grants' = [grants EXCEPT ![r] = @ \cup {q}] /\ active' = active
<1>1. Grant(r, q).op = "grant" /\ Grant(r, q).on = r /\ Grant(r, q).permission = q
  BY DEF Grant
<1> QED
  BY <1>1 DEF Effect, RowsAfter

LEMMA UpsertLeaves ==
  ASSUME NEW t, Effect(Upsert(t))
  PROVE  /\ rows' = [rows EXCEPT ![t] = (@ \cap {"staff"}) \cup {"new"}]
         /\ grants' = grants /\ active' = active
<1>1. Upsert(t).op = "upsert" /\ Upsert(t).on = t
  BY DEF Upsert
<1> QED
  BY <1>1 DEF Effect, RowsAfter

LEMMA DeleteNamedLeaves ==
  ASSUME NEW t, Effect([op |-> "deleteNamed", on |-> t])
  PROVE  rows' = [rows EXCEPT ![t] = @ \cap {"staff"}] /\ grants' = grants /\ active' = active
  BY DEF Effect, RowsAfter

LEMMA DeleteLeaves ==
  ASSUME NEW t, Effect(Delete(t))
  PROVE  rows' = Emptied(rows, t) /\ grants' = grants /\ active' = active
<1>1. Delete(t).op = "delete" /\ Delete(t).on = t
  BY DEF Delete
<1> QED
  BY <1>1 DEF Effect, RowsAfter

LEMMA CreateLeaves ==
  ASSUME NEW s, s.op \in {"create", "createQuiz"}, Effect(s)
  PROVE  /\ rows' = [t \in Tables |-> IF t \in Written(s) THEN rows[t] \cup {"new"} ELSE rows[t]]
         /\ grants' = grants /\ active' = active
  BY DEF Effect, RowsAfter

LEMMA StepTyped ==
  ASSUME SeedTypeOK, NEW s \in Step, Effect(s)
  PROVE  /\ rows' \in [Tables -> SUBSET Makers] /\ active' \subseteq Doors
         /\ grants' \in [Roles \cup {Custom} -> SUBSET Permissions]
<1> USE DEF SeedTypeOK
<1>1. {"new", "staff"} \subseteq Makers
  BY DEF Makers
<1>2. ASSUME NEW t \in Tables, s = Create(t) PROVE s.op = "create"
  BY <1>2 DEF Create
<1>3. Quiz.op = "createQuiz"
  BY DEF Quiz
<1>4. ASSUME s.op \in {"create", "createQuiz"}
      PROVE  rows' \in [Tables -> SUBSET Makers] /\ grants' = grants /\ active' = active
  BY <1>1, <1>4, CreateLeaves
<1>5. ASSUME NEW t \in Tables, s = Upsert(t)
      PROVE  rows' \in [Tables -> SUBSET Makers] /\ grants' = grants /\ active' = active
  BY <1>1, <1>5, UpsertLeaves
<1>6. ASSUME NEW t \in Tables, s = Delete(t)
      PROVE  rows' \in [Tables -> SUBSET Makers] /\ grants' = grants /\ active' = active
  <2>1. rows' = Emptied(rows, t) /\ grants' = grants /\ active' = active
    BY <1>6, DeleteLeaves
  <2> QED
    BY <2>1 DEF Emptied
<1>7. ASSUME NEW t, s = [op |-> "deleteNamed", on |-> t]
      PROVE  rows' \in [Tables -> SUBSET Makers] /\ grants' = grants /\ active' = active
  BY <1>7, DeleteNamedLeaves
<1>8. ASSUME NEW d \in Doors, s = Open(d)
      PROVE  rows' = rows /\ grants' = grants /\ active' \subseteq Doors
  BY <1>8, OpenLeaves
<1>9. ASSUME NEW r \in Roles, NEW q \in Permissions, s = Grant(r, q)
      PROVE  /\ rows' = rows /\ active' = active
             /\ grants' \in [Roles \cup {Custom} -> SUBSET Permissions]
  BY <1>9, GrantLeaves
<1>10. ASSUME s = [op |-> "revoke", on |-> Custom]
       PROVE  /\ rows' = rows /\ active' = active
              /\ grants' \in [Roles \cup {Custom} -> SUBSET Permissions]
  BY <1>10, RevokeLeaves
<1> QED
  BY <1>2, <1>3, <1>4, <1>5, <1>6, <1>7, <1>8, <1>9, <1>10 DEF Step

-----------------------------------------------------------------------------
(* A step that is not refused takes the run one step on.                     *)

\* The four parts of RunInv in the next state, for a step that leaves them alone.
LEMMA GrantsStand ==
  ASSUME NEW k \in Nat, k <= 1 \/ k > 12, GrantsDone(k), grants' = grants
  PROVE  GrantsDone(k + 1)'
<1>1. k > 12 => \A i \in 1 .. 10 : i + 2 < k /\ i + 2 < k + 1
  OBVIOUS
<1>2. k <= 1 => ~(k + 1 > 2)
  OBVIOUS
<1> QED
  BY <1>1, <1>2 DEF GrantsDone

LEMMA GrantsAtRevoke ==
  ASSUME SeedTypeOK, grants' = [r \in DOMAIN grants |-> {}]
  PROVE  GrantsDone(3)'
<1>1. \A r \in Roles \cup {Custom} : grants'[r] = {}
  BY DEF SeedTypeOK
<1>2. \A i \in 1 .. 10 : ~(i + 2 < 3)
  OBVIOUS
<1> QED
  BY <1>1, <1>2 DEF GrantsDone

\* The grants name seeded roles, no two the same.
LEMMA GrantsDiffer ==
  /\ \A i \in 1 .. 10 : \E r \in Roles, q \in Permissions : Grants[i] = Grant(r, q)
  /\ \A i, j \in 1 .. 10 : i # j => Grants[i] # Grants[j]
  /\ \A r, t, q, x : Grant(r, q) = Grant(t, x) <=> r = t /\ q = x
  /\ Custom \notin Roles
<1>1. \A r, t, q, x : Grant(r, q) = Grant(t, x) <=> r = t /\ q = x
  <2> SUFFICES ASSUME NEW r, NEW t, NEW q, NEW x, Grant(r, q) = Grant(t, x)
               PROVE  r = t /\ q = x
    OBVIOUS
  <2>1. Grant(r, q).on = Grant(t, x).on /\ Grant(r, q).permission = Grant(t, x).permission
    OBVIOUS
  <2> QED
    BY <2>1 DEF Grant
<1>2. \A i \in 1 .. 10 : \E r \in Roles, q \in Permissions : Grants[i] = Grant(r, q)
  BY DEF Grants, Roles, Permissions
<1>3. \A i, j \in 1 .. 10 : i # j => Grants[i] # Grants[j]
  BY <1>1 DEF Grants
<1> QED
  BY <1>1, <1>2, <1>3 DEF Custom, Roles

LEMMA GrantsAtGrant ==
  ASSUME SeedTypeOK, NEW i \in 1 .. 10, GrantsDone(i + 2),
         NEW r \in Roles, NEW q \in Permissions, Grants[i] = Grant(r, q),
         grants' = [grants EXCEPT ![r] = @ \cup {q}]
  PROVE  GrantsDone((i + 2) + 1)'
<1>1. i + 2 > 2
  OBVIOUS
<1>2. \A l \in 1 .. 10 : l + 2 < (i + 2) + 1 <=> l + 2 < i + 2 \/ l = i
  OBVIOUS
<1>3. grants'[Custom] = {}
  BY <1>1, GrantsDiffer DEF GrantsDone, SeedTypeOK
<1>4. ASSUME NEW t \in Roles
      PROVE  grants'[t] =
               {x \in Permissions :
                  \E l \in 1 .. 10 : l + 2 < (i + 2) + 1 /\ Grants[l] = Grant(t, x)}
  <2>1. grants[t] =
          {x \in Permissions : \E l \in 1 .. 10 : l + 2 < i + 2 /\ Grants[l] = Grant(t, x)}
    BY <1>1 DEF GrantsDone
  <2>2. CASE t = r
    <3>1. grants'[t] = grants[t] \cup {q}
      BY <2>2 DEF SeedTypeOK
    <3>2. \A x \in Permissions : Grants[i] = Grant(t, x) <=> x = q
      BY <2>2, GrantsDiffer
    <3> QED
      BY <1>2, <2>1, <3>1, <3>2
  <2>3. CASE t # r
    <3>1. grants'[t] = grants[t]
      BY <2>3 DEF SeedTypeOK
    <3>2. \A x \in Permissions : Grants[i] # Grant(t, x)
      BY <2>3, GrantsDiffer
    <3> QED
      BY <1>2, <2>1, <3>1, <3>2
  <2> QED
    BY <2>2, <2>3
<1> QED
  BY <1>3, <1>4 DEF GrantsDone

LEMMA DefaultsKept ==
  ASSUME NEW k \in Nat, k \notin {13, 15, 16, 17, 18}, DefaultsDone(k),
         \A t \in DefaultTables : rows'[t] = rows[t]
  PROVE  DefaultsDone(k + 1)'
<1>1. {"defaultUser", "defaultSetting", "defaultTemplate", "defaultRule"} \subseteq DefaultTables
  BY DEF DefaultTables
<1> QED
  BY <1>1 DEF DefaultsDone, Renewed

LEMMA DoorsKept ==
  ASSUME NEW k \in Nat, k \notin {1, 14, 19}, DoorsDone(k), active' = active
  PROVE  DoorsDone(k + 1)'
  BY DEF DoorsDone

LEMMA TablesBefore ==
  ASSUME NEW p, NEW k \in 1 .. 19 PROVE TablesDone(p, k + 1)'
  BY DEF TablesDone

LEMMA DoorOpened ==
  ASSUME NEW k \in Nat, DoorsDone(k), NEW d, active' = active \cup {d},
         k = 1 => d = "defaultOrganization",
         k = 14 => d = "defaultAdmin",
         k = 19 => d = "organization"
  PROVE  DoorsDone(k + 1)'
  BY DEF DoorsDone

LEMMA TablesAtDelete ==
  ASSUME SeedTypeOK, NEW p, NEW i \in 1 .. 37, TablesDone(p, i + 19),
         rows' = Emptied(rows, ResetOrder[i])
  PROVE  TablesDone(p, (i + 19) + 1)'
<1>1. \A l \in 1 .. 37 : l + 19 < (i + 19) + 1 <=> l + 19 < i + 19 \/ l = i
  OBVIOUS
<1>2. ASSUME NEW l \in 1 .. 37, l + 19 < (i + 19) + 1 PROVE rows'[ResetOrder[l]] = {}
  <2>1. ResetOrder[l] \in Tables
    BY TablesNamed
  <2>2. CASE l = i
    BY <2>1, <2>2, EmptiedAt
  <2>3. CASE l + 19 < i + 19
    <3>1. i + 19 <= 57
      OBVIOUS
    <3>2. rows[ResetOrder[l]] = {}
      BY <2>3, <3>1 DEF TablesDone
    <3> QED
      BY <2>1, <3>2, EmptiedAt
  <2> QED
    BY <1>1, <1>2, <2>2, <2>3
<1>3. ASSUME (i + 19) + 1 >= 57, NEW t \in Rebuilt
      PROVE  rows'[t] = IF t \in MadeTo(Rebuild(p), ((i + 19) + 1) - 56) THEN {"new"} ELSE {}
  <2>1. i = 37 /\ ((i + 19) + 1) - 56 = 1
    BY <1>3
  <2>2. MadeTo(Rebuild(p), 1) = {}
    BY MadeOneMore, 1 \in Nat, 1 >= 1
  <2>3. CASE t = "userRole"
    <3>1. <<t, ResetOrder[i]>> \in Falls
      BY <2>1, <2>3, ResetAll
    <3>2. rows'[t] = {}
      BY <3>1, EmptiedAt, TablesNamed
    <3> QED
      BY <2>1, <2>2, <3>2
  <2>4. CASE \E l \in 1 .. 37 : t = ResetOrder[l]
    <3>1. PICK l \in 1 .. 37 : t = ResetOrder[l]
      BY <2>4
    <3>2. l + 19 < (i + 19) + 1
      BY <2>1
    <3>3. rows'[t] = {}
      BY <1>2, <3>1, <3>2
    <3> QED
      BY <2>1, <2>2, <3>3
  <2> QED
    BY <2>3, <2>4, ResetAll
<1> QED
  BY <1>2, <1>3 DEF TablesDone

LEMMA TablesAtCreate ==
  ASSUME SeedTypeOK, NEW p \in {"demo", "northfield"}, NEW j \in 1 .. Len(Rebuild(p)),
         TablesDone(p, j + 56),
         rows' = [t \in Tables |->
                    IF t \in Written(Rebuild(p)[j]) THEN rows[t] \cup {"new"} ELSE rows[t]]
  PROVE  TablesDone(p, (j + 56) + 1)'
<1> DEFINE n == Len(Rebuild(p))
<1>1. n \in 1 .. 39
  BY RebuildInOrder
<1>2. /\ j \in Nat /\ j >= 1 /\ j + 56 >= 57 /\ (j + 56) - 56 = j
      /\ ((j + 56) + 1) - 56 = j + 1 /\ ~((j + 56) + 1 <= 57)
  BY <1>1
<1>3. MadeTo(Rebuild(p), j + 1) = MadeTo(Rebuild(p), j) \cup Written(Rebuild(p)[j])
  BY <1>2, MadeOneMore
<1>4. \A t \in Rebuilt : rows[t] = IF t \in MadeTo(Rebuild(p), j) THEN {"new"} ELSE {}
  BY <1>2 DEF TablesDone
<1>5. \A t \in Rebuilt : rows'[t] = IF t \in MadeTo(Rebuild(p), j + 1) THEN {"new"} ELSE {}
  BY <1>3, <1>4, TablesNamed
<1> QED
  BY <1>2, <1>5 DEF TablesDone

LEMMA StepAdvances ==
  ASSUME SeedTypeOK, NEW p \in {"demo", "northfield"}, NEW k \in 1 .. Len(ScriptOf(p)),
         RunInv(p, k), Effect(ScriptOf(p)[k])
  PROVE  RunInv(p, k + 1)'
<1> DEFINE s == ScriptOf(p)[k]
           m == Len(ScriptOf(p))
           n == Len(Rebuild(p))
<1>1. m = 56 + n /\ n \in 1 .. 39
  BY Layout, RebuildInOrder
<1>2. k \in Nat /\ k >= 1
  BY <1>1
<1>3. DefaultsDone(k) /\ GrantsDone(k) /\ DoorsDone(k) /\ TablesDone(p, k)
  BY DEF RunInv
<1>4. DefaultTables \subseteq Tables /\ rows \in [Tables -> SUBSET Makers]
  BY TablesNamed DEF SeedTypeOK
<1> HIDE DEF s, m, n
<1>5. ASSUME NEW d \in Doors, s = Open(d), k \in {1, 14, 19},
             k = 1 => d = "defaultOrganization",
             k = 14 => d = "defaultAdmin",
             k = 19 => d = "organization"
      PROVE  RunInv(p, k + 1)'
  <2>1. rows' = rows /\ grants' = grants /\ active' = active \cup {d}
    BY <1>5, OpenLeaves DEF s
  <2>2. DefaultsDone(k + 1)'
    BY <1>2, <1>3, <1>5, <2>1, DefaultsKept
  <2>3. GrantsDone(k + 1)'
    BY <1>2, <1>3, <1>5, <2>1, GrantsStand
  <2>4. DoorsDone(k + 1)'
    BY <1>2, <1>3, <1>5, <2>1, DoorOpened
  <2>5. TablesDone(p, k + 1)'
    BY <1>5, TablesBefore
  <2> QED
    BY <2>2, <2>3, <2>4, <2>5 DEF RunInv
<1>6. CASE k = 2 /\ s = [op |-> "revoke", on |-> Custom]
  <2>1. rows' = rows /\ grants' = [r \in DOMAIN grants |-> {}] /\ active' = active
    BY <1>6, RevokeLeaves DEF s
  <2>2. DefaultsDone(k + 1)'
    BY <1>3, <1>6, <2>1, DefaultsKept
  <2>3. GrantsDone(k + 1)'
    BY <1>6, <2>1, GrantsAtRevoke
  <2>4. DoorsDone(k + 1)'
    BY <1>3, <1>6, <2>1, DoorsKept
  <2>5. TablesDone(p, k + 1)'
    BY <1>6, TablesBefore
  <2> QED
    BY <2>2, <2>3, <2>4, <2>5 DEF RunInv
<1>7. ASSUME NEW i \in 1 .. 10, k = i + 2, s = Grants[i] PROVE RunInv(p, k + 1)'
  <2>1. PICK r \in Roles, q \in Permissions : Grants[i] = Grant(r, q)
    BY GrantsDiffer
  <2>2. rows' = rows /\ grants' = [grants EXCEPT ![r] = @ \cup {q}] /\ active' = active
    BY <1>7, <2>1, GrantLeaves DEF s
  <2>3. DefaultsDone(k + 1)'
    BY <1>2, <1>3, <1>7, <2>2, DefaultsKept
  <2>4. GrantsDone(k + 1)'
    BY <1>3, <1>7, <2>1, <2>2, GrantsAtGrant
  <2>5. DoorsDone(k + 1)'
    BY <1>2, <1>3, <1>7, <2>2, DoorsKept
  <2>6. TablesDone(p, k + 1)'
    BY <1>7, TablesBefore, i + 2 \in 1 .. 19
  <2> QED
    BY <2>3, <2>4, <2>5, <2>6 DEF RunInv
<1>8. ASSUME grants' = grants, active' = active, k \in {13, 15, 16, 17, 18}, DefaultsDone(k + 1)'
      PROVE  RunInv(p, k + 1)'
  <2>1. GrantsDone(k + 1)'
    BY <1>2, <1>3, <1>8, GrantsStand
  <2>2. DoorsDone(k + 1)'
    BY <1>2, <1>3, <1>8, DoorsKept
  <2>3. TablesDone(p, k + 1)'
    BY <1>8, TablesBefore
  <2> QED
    BY <1>8, <2>1, <2>2, <2>3 DEF RunInv
<1>9. CASE k = 13 /\ s = Upsert("defaultUser")
  <2>1. /\ rows' = [rows EXCEPT !["defaultUser"] = (@ \cap {"staff"}) \cup {"new"}]
        /\ grants' = grants /\ active' = active
    BY <1>9, UpsertLeaves DEF s
  <2>2. DefaultsDone(k + 1)'
    BY <1>3, <1>4, <1>9, <2>1 DEF DefaultsDone, Renewed, DefaultTables
  <2> QED
    BY <1>8, <1>9, <2>1, <2>2
<1>10. CASE k = 15 /\ s = Upsert("defaultSetting")
  <2>1. /\ rows' = [rows EXCEPT !["defaultSetting"] = (@ \cap {"staff"}) \cup {"new"}]
        /\ grants' = grants /\ active' = active
    BY <1>10, UpsertLeaves DEF s
  <2>2. DefaultsDone(k + 1)'
    BY <1>3, <1>4, <1>10, <2>1 DEF DefaultsDone, Renewed, DefaultTables
  <2> QED
    BY <1>8, <1>10, <2>1, <2>2
<1>11. CASE k = 16 /\ s = Upsert("defaultTemplate")
  <2>1. /\ rows' = [rows EXCEPT !["defaultTemplate"] = (@ \cap {"staff"}) \cup {"new"}]
        /\ grants' = grants /\ active' = active
    BY <1>11, UpsertLeaves DEF s
  <2>2. DefaultsDone(k + 1)'
    BY <1>3, <1>4, <1>11, <2>1 DEF DefaultsDone, Renewed, DefaultTables
  <2> QED
    BY <1>8, <1>11, <2>1, <2>2
<1>12. CASE k = 17 /\ s = [op |-> "deleteNamed", on |-> "defaultRule"]
  <2>1. /\ rows' = [rows EXCEPT !["defaultRule"] = @ \cap {"staff"}]
        /\ grants' = grants /\ active' = active
    BY <1>12, DeleteNamedLeaves DEF s
  <2>2. DefaultsDone(k + 1)'
    BY <1>3, <1>4, <1>12, <2>1 DEF DefaultsDone, Renewed, DefaultTables
  <2> QED
    BY <1>8, <1>12, <2>1, <2>2
<1>13. CASE k = 18 /\ s = Create("defaultRule")
  <2>1. s.op = "create" /\ Written(s) = {"defaultRule"}
    BY <1>13 DEF Create, Written
  <2>2. /\ rows' = [t \in Tables |-> IF t \in Written(s) THEN rows[t] \cup {"new"} ELSE rows[t]]
        /\ grants' = grants /\ active' = active
    BY <2>1, CreateLeaves DEF s
  <2>3. DefaultsDone(k + 1)'
    BY <1>3, <1>4, <1>13, <2>1, <2>2 DEF DefaultsDone, Renewed, DefaultTables
  <2> QED
    BY <1>8, <1>13, <2>2, <2>3
<1>14. ASSUME NEW i \in 1 .. 37, k = i + 19, s = Delete(ResetOrder[i]) PROVE RunInv(p, k + 1)'
  <2>1. rows' = Emptied(rows, ResetOrder[i]) /\ grants' = grants /\ active' = active
    BY <1>14, DeleteLeaves DEF s
  <2>2. k > 19
    BY <1>14
  <2>3. ResetOrder[i] \in Rebuilt
    BY TablesNamed
  <2>4. \A t \in DefaultTables : rows'[t] = rows[t]
    BY <1>4, <2>1, <2>3, EmptiedAt
  <2>5. DefaultsDone(k + 1)'
    BY <1>2, <1>3, <2>2, <2>4, DefaultsKept
  <2>6. GrantsDone(k + 1)'
    BY <1>2, <1>3, <2>1, <2>2, GrantsStand
  <2>7. DoorsDone(k + 1)'
    BY <1>2, <1>3, <2>1, <2>2, DoorsKept
  <2>8. TablesDone(p, k + 1)'
    BY <1>3, <1>14, <2>1, TablesAtDelete
  <2> QED
    BY <2>5, <2>6, <2>7, <2>8 DEF RunInv
<1>15. ASSUME NEW j \in 1 .. n, k = j + 56, s = Rebuild(p)[j] PROVE RunInv(p, k + 1)'
  <2>1. s.op \in {"create", "createQuiz"} /\ Written(s) \subseteq Rebuilt
    BY <1>15, RebuildInOrder DEF InOrder, n
  <2>2. /\ rows' = [t \in Tables |-> IF t \in Written(s) THEN rows[t] \cup {"new"} ELSE rows[t]]
        /\ grants' = grants /\ active' = active
    BY <2>1, CreateLeaves DEF s
  <2>3. k > 19
    BY <1>1, <1>15
  <2>4. \A t \in DefaultTables : rows'[t] = rows[t]
    BY <1>4, <2>1, <2>2, RebuiltApart
  <2>5. DefaultsDone(k + 1)'
    BY <1>2, <1>3, <2>3, <2>4, DefaultsKept
  <2>6. GrantsDone(k + 1)'
    BY <1>2, <1>3, <2>2, <2>3, GrantsStand
  <2>7. DoorsDone(k + 1)'
    BY <1>2, <1>3, <2>2, <2>3, DoorsKept
  <2>8. TablesDone(p, k + 1)'
    BY <1>3, <1>15, <2>2, TablesAtCreate DEF n
  <2> QED
    BY <2>5, <2>6, <2>7, <2>8 DEF RunInv
<1>16. {"defaultOrganization", "defaultAdmin", "organization"} \subseteq Doors
       /\ {"defaultUser", "defaultSetting", "defaultTemplate"} \subseteq DefaultTables
  BY DEF Doors, DefaultTables
<1>17. \/ k = 1 /\ s = Open("defaultOrganization")
       \/ k = 2 /\ s = [op |-> "revoke", on |-> Custom]
       \/ \E i \in 1 .. 10 : k = i + 2 /\ s = Grants[i]
       \/ k = 13 /\ s = Upsert("defaultUser")
       \/ k = 14 /\ s = Open("defaultAdmin")
       \/ k = 15 /\ s = Upsert("defaultSetting")
       \/ k = 16 /\ s = Upsert("defaultTemplate")
       \/ k = 17 /\ s = [op |-> "deleteNamed", on |-> "defaultRule"]
       \/ k = 18 /\ s = Create("defaultRule")
       \/ k = 19 /\ s = Open("organization")
       \/ \E i \in 1 .. 37 : k = i + 19 /\ s = Delete(ResetOrder[i])
       \/ \E j \in 1 .. n : k = j + 56 /\ s = Rebuild(p)[j]
  BY StepCases DEF s, n
<1>18. \/ k = 1 /\ s = Open("defaultOrganization")
       \/ k = 14 /\ s = Open("defaultAdmin")
       \/ k = 19 /\ s = Open("organization")
       => RunInv(p, k + 1)'
  BY <1>5, <1>16
<1>19. \/ \E i \in 1 .. 10 : k = i + 2 /\ s = Grants[i]
       \/ \E i \in 1 .. 37 : k = i + 19 /\ s = Delete(ResetOrder[i])
       \/ \E j \in 1 .. n : k = j + 56 /\ s = Rebuild(p)[j]
       => RunInv(p, k + 1)'
  BY <1>7, <1>14, <1>15
<1> QED
  BY <1>6, <1>9, <1>10, <1>11, <1>12, <1>13, <1>17, <1>18, <1>19

-----------------------------------------------------------------------------
(* A run nobody disturbs is refused only for an e-mail held elsewhere.       *)

LEMMA NeverRefused ==
  ASSUME SeedTypeOK, NEW p \in {"demo", "northfield"}, NEW k \in 1 .. Len(ScriptOf(p)),
         RunInv(p, k), ~elsewhere
  PROVE  ~Refused(ScriptOf(p)[k])
<1> DEFINE s == ScriptOf(p)[k]
           n == Len(Rebuild(p))
<1>1. n \in 1 .. 39
  BY RebuildInOrder
<1>2. DefaultsDone(k) /\ GrantsDone(k) /\ TablesDone(p, k)
  BY DEF RunInv
<1> HIDE DEF s, n
<1>3. ASSUME s.op \notin {"create", "createQuiz", "grant"} PROVE ~Refused(s)
  BY <1>3 DEF Refused
<1>4. /\ \A d : Open(d).op = "open"
      /\ \A t : Upsert(t).op = "upsert" /\ Delete(t).op = "delete"
  BY DEF Open, Upsert, Delete
<1>5. ASSUME NEW i \in 1 .. 10, k = i + 2, s = Grants[i] PROVE ~Refused(s)
  <2>1. PICK r \in Roles, q \in Permissions : Grants[i] = Grant(r, q)
    BY GrantsDiffer
  <2>2. s.op = "grant" /\ s.on = r /\ s.permission = q
    BY <1>5, <2>1 DEF Grant
  <2>3. k > 2 /\ \A l \in 1 .. 10 : l + 2 < k => l # i
    BY <1>5
  <2>4. q \notin grants[r]
    BY <1>2, <2>1, <2>3, GrantsDiffer DEF GrantsDone
  <2> QED
    BY <2>2, <2>4 DEF Refused
<1>6. ASSUME k = 18, s = Create("defaultRule") PROVE ~Refused(s)
  <2>1. s.op = "create" /\ Written(s) = {"defaultRule"}
    BY <1>6 DEF Create, Written
  <2>2. "defaultRule" \notin Keyed
    BY DEF Keyed
  <2>3. "new" \in rows["defaultTemplate"]
    BY <1>2, <1>6 DEF DefaultsDone, Renewed
  <2>4. References("defaultRule") \subseteq {"defaultTemplate"}
    BY ReferencesOf
  <2>5. s.op # "grant"
    BY <2>1
  <2>6. "defaultRule" # "user"
    OBVIOUS
  <2> QED
    BY <2>1, <2>2, <2>3, <2>4, <2>5, <2>6 DEF Refused
<1>7. ASSUME NEW j \in 1 .. n, k = j + 56, s = Rebuild(p)[j] PROVE ~Refused(s)
  <2>1. /\ s.op \in {"create", "createQuiz"} /\ Written(s) \subseteq Rebuilt
        /\ \A t \in Written(s) : References(t) \subseteq Written(s) \cup MadeTo(Rebuild(p), j)
    BY <1>7, RebuildInOrder DEF InOrder, n
  <2>2. k >= 57 /\ k - 56 = j
    BY <1>1, <1>7
  <2>3. \A t \in Rebuilt : rows[t] = IF t \in MadeTo(Rebuild(p), j) THEN {"new"} ELSE {}
    BY <1>2, <2>2 DEF TablesDone
  <2>4. MadeTo(Rebuild(p), j) \subseteq Rebuilt
    <3>1. \A i \in 1 .. j - 1 : i \in 1 .. n
      BY <1>1
    <3> QED
      BY <3>1, RebuildInOrder DEF MadeTo, InOrder, n
  <2>5. \A t \in Written(s) : rows[t] \cap {"old", "taken"} = {}
    BY <2>1, <2>3
  <2>6. \A t \in Written(s) : \A x \in References(t) \ Written(s) : "new" \in rows[x]
    BY <2>1, <2>3, <2>4
  <2>7. s.op # "grant"
    BY <2>1
  <2> QED
    BY <2>5, <2>6, <2>7 DEF Refused
<1>8. \/ k = 1 /\ s = Open("defaultOrganization")
      \/ k = 2 /\ s = [op |-> "revoke", on |-> Custom]
      \/ \E i \in 1 .. 10 : k = i + 2 /\ s = Grants[i]
      \/ k = 13 /\ s = Upsert("defaultUser")
      \/ k = 14 /\ s = Open("defaultAdmin")
      \/ k = 15 /\ s = Upsert("defaultSetting")
      \/ k = 16 /\ s = Upsert("defaultTemplate")
      \/ k = 17 /\ s = [op |-> "deleteNamed", on |-> "defaultRule"]
      \/ k = 18 /\ s = Create("defaultRule")
      \/ k = 19 /\ s = Open("organization")
      \/ \E i \in 1 .. 37 : k = i + 19 /\ s = Delete(ResetOrder[i])
      \/ \E j \in 1 .. n : k = j + 56 /\ s = Rebuild(p)[j]
  BY StepCases DEF s, n
<1>9. (\E d : s = Open(d)) \/ (\E t : s \in {Upsert(t), Delete(t)}) => ~Refused(s)
  BY <1>3, <1>4
<1>10. s \in {[op |-> "revoke", on |-> Custom], [op |-> "deleteNamed", on |-> "defaultRule"]}
         => ~Refused(s)
  BY <1>3
<1>11. (\E i \in 1 .. 10 : k = i + 2 /\ s = Grants[i])
         \/ (\E j \in 1 .. n : k = j + 56 /\ s = Rebuild(p)[j]) => ~Refused(s)
  BY <1>5, <1>7
<1>12. ~Refused(s)
  BY <1>6, <1>8, <1>9, <1>10, <1>11
<1> QED
  BY <1>12 DEF s

-----------------------------------------------------------------------------
(* What a run that ends leaves.                                              *)

LEMMA GrantedInAll ==
  ASSUME NEW r \in Roles
  PROVE  {q \in Permissions : \E i \in 1 .. 10 : Grants[i] = Grant(r, q)} = SeedGrants[r]
<1>1. \A q : (\E i \in 1 .. 10 : Grants[i] = Grant(r, q)) <=>
        \/ r = "SUPER_ADMIN" /\ q \in {"settings", "work", "portal"}
        \/ r = "ADMIN" /\ q \in {"work", "portal"}
        \/ r \in {"STAFF", "ACADEMIC_COORDINATOR", "TEACHER"} /\ q = "work"
        \/ r \in {"STUDENT", "PARENT"} /\ q = "portal"
  <2>1. \A q : (\E i \in 1 .. 10 : Grants[i] = Grant(r, q)) <=>
          \/ Grant("SUPER_ADMIN", "settings") = Grant(r, q)
          \/ Grant("SUPER_ADMIN", "work") = Grant(r, q)
          \/ Grant("SUPER_ADMIN", "portal") = Grant(r, q)
          \/ Grant("ADMIN", "work") = Grant(r, q) \/ Grant("ADMIN", "portal") = Grant(r, q)
          \/ Grant("STAFF", "work") = Grant(r, q)
          \/ Grant("ACADEMIC_COORDINATOR", "work") = Grant(r, q)
          \/ Grant("TEACHER", "work") = Grant(r, q)
          \/ Grant("STUDENT", "portal") = Grant(r, q) \/ Grant("PARENT", "portal") = Grant(r, q)
    BY DEF Grants
  <2> QED
    BY <2>1, GrantsDiffer
<1> QED
  BY <1>1 DEF SeedGrants, Roles, Permissions

\* Of the organization's tables the whole script writes what its last part makes.
LEMMA MadeInAll ==
  ASSUME NEW p \in {"demo", "northfield"}, NEW t \in Rebuilt
  PROVE  t \in MadeBy(ScriptOf(p)) <=> t \in MadeTo(Rebuild(p), Len(Rebuild(p)) + 1)
<1> DEFINE m == Len(ScriptOf(p))
           n == Len(Rebuild(p))
           s(k) == ScriptOf(p)[k]
           Makes(k) == s(k).op \in {"create", "createQuiz", "upsert"} /\ t \in Written(s(k))
<1>1. m = 56 + n /\ n \in 1 .. 39
  BY Layout, RebuildInOrder
<1>2. DOMAIN ScriptOf(p) = 1 .. m
  <2>1. ScriptOf(p) \in Seq(Step)
    BY PartsTyped, Joined DEF ScriptOf
  <2> QED
    BY <2>1
<1>3. t \in MadeBy(ScriptOf(p)) <=> \E k \in 1 .. m : Makes(k)
  BY <1>2 DEF MadeBy
<1>4. t \in MadeTo(Rebuild(p), n + 1) <=> \E j \in 1 .. n : t \in Written(Rebuild(p)[j])
  <2>1. 1 .. (n + 1) - 1 = 1 .. n
    BY <1>1
  <2> QED
    BY <2>1 DEF MadeTo
<1>5. \A j \in 1 .. n : Makes(j + 56) <=> t \in Written(Rebuild(p)[j])
  <2>1. \A j \in 1 .. n : s(j + 56) = Rebuild(p)[j]
    <3> HIDE DEF n
    <3>1. \A k \in 57 .. 56 + n : ScriptOf(p)[k] = Rebuild(p)[k - 56]
      BY Layout DEF n
    <3>2. \A j \in 1 .. n : j + 56 \in 57 .. 56 + n /\ (j + 56) - 56 = j
      BY <1>1
    <3> QED
      BY <3>1, <3>2
  <2>2. \A j \in 1 .. n : Rebuild(p)[j].op \in {"create", "createQuiz"}
    BY RebuildInOrder DEF InOrder
  <2> QED
    BY <2>1, <2>2
<1>6. ASSUME NEW k \in 1 .. m, Makes(k) PROVE \E j \in 1 .. n : k = j + 56
  <2>1. t \notin DefaultTables
    BY RebuiltApart
  <2>2. /\ \A d : Open(d).op = "open"
        /\ \A u : Delete(u).op = "delete" /\ Upsert(u).op = "upsert" /\ Upsert(u).on = u
        /\ \A r, q : Grant(r, q).op = "grant"
        /\ \A u : Create(u).op = "create" /\ Create(u).on = u
    BY DEF Open, Delete, Upsert, Grant, Create
  <2>3. \A i \in 1 .. 10 : Grants[i].op = "grant"
    BY <2>2, GrantsDiffer
  <2>4. \A u \in DefaultTables : s(k) \in {Upsert(u), Create(u)} => Written(s(k)) = {u}
    BY <2>2 DEF Written
  <2> DEFINE x == s(k)
  <2>5. x.op \notin {"open", "delete", "grant", "revoke", "deleteNamed"}
    BY <1>6
  <2>6. \A u \in DefaultTables : x \notin {Upsert(u), Create(u)}
    BY <1>6, <2>1, <2>4
  <2>7. {"defaultUser", "defaultSetting", "defaultTemplate", "defaultRule"} \subseteq DefaultTables
    BY DEF DefaultTables
  <2>8. \/ k = 1 /\ x = Open("defaultOrganization")
        \/ k = 2 /\ x = [op |-> "revoke", on |-> Custom]
        \/ \E i \in 1 .. 10 : k = i + 2 /\ x = Grants[i]
        \/ k = 13 /\ x = Upsert("defaultUser")
        \/ k = 14 /\ x = Open("defaultAdmin")
        \/ k = 15 /\ x = Upsert("defaultSetting")
        \/ k = 16 /\ x = Upsert("defaultTemplate")
        \/ k = 17 /\ x = [op |-> "deleteNamed", on |-> "defaultRule"]
        \/ k = 18 /\ x = Create("defaultRule")
        \/ k = 19 /\ x = Open("organization")
        \/ \E i \in 1 .. 37 : k = i + 19 /\ x = Delete(ResetOrder[i])
        \/ \E j \in 1 .. n : k = j + 56 /\ x = Rebuild(p)[j]
    BY StepCases
  <2> HIDE DEF s, n, m, x, Makes
  <2>9. x \notin {Upsert("defaultUser"), Upsert("defaultSetting"), Upsert("defaultTemplate"),
                  Create("defaultRule")}
    BY <2>6, <2>7
  <2> QED
    BY <2>2, <2>3, <2>5, <2>8, <2>9
<1>7. \A j \in 1 .. n : j + 56 \in 1 .. m
  BY <1>1
<1> HIDE DEF m, n, Makes
<1> QED
  BY <1>3, <1>4, <1>5, <1>6, <1>7 DEF n

\* What RerunRestores says of a run that ended undisturbed.
Restored(p) ==
  /\ \A t \in Rebuilt : rows[t] = IF t \in MadeBy(ScriptOf(p)) THEN {"new"} ELSE {}
  /\ \A t \in DefaultTables : "new" \in rows[t] /\ "old" \notin rows[t]
  /\ \A r \in Roles : grants[r] = SeedGrants[r]
  /\ grants[Custom] = {} /\ active = Doors

LastStepRestores ==
  \A p \in {"demo", "northfield"} :
    SeedTypeOK /\ RunInv(p, Len(ScriptOf(p)) + 1) => Restored(p)

LEMMA RunRestored == LastStepRestores
<1> SUFFICES ASSUME SeedTypeOK, NEW p \in {"demo", "northfield"},
                    RunInv(p, Len(ScriptOf(p)) + 1)
             PROVE  Restored(p)
  BY DEF LastStepRestores
<1> DEFINE n == Len(Rebuild(p))
           k == Len(ScriptOf(p)) + 1
<1>1. Len(ScriptOf(p)) = 56 + n /\ n \in 1 .. 39
  BY Layout, RebuildInOrder
<1>2. DefaultsDone(k) /\ GrantsDone(k) /\ DoorsDone(k) /\ TablesDone(p, k)
  BY DEF RunInv
<1> HIDE DEF n
<1>3. k = 57 + n
  BY <1>1
<1> HIDE DEF k
<1>4. k > 57 /\ k - 56 = n + 1 /\ \A i \in 1 .. 10 : i + 2 < k
  BY <1>1, <1>3
<1>5. \A t \in Rebuilt : rows[t] = IF t \in MadeBy(ScriptOf(p)) THEN {"new"} ELSE {}
  <2>1. k >= 57
    BY <1>1, <1>3
  <2>2. \A t \in Rebuilt : rows[t] = IF t \in MadeTo(Rebuild(p), n + 1) THEN {"new"} ELSE {}
    BY <1>2, <1>4, <2>1 DEF TablesDone
  <2> QED
    BY <2>2, MadeInAll DEF n
<1>6. \A t \in DefaultTables : "new" \in rows[t] /\ "old" \notin rows[t]
  <2>1. k > 13 /\ k > 15 /\ k > 16 /\ k > 18
    BY <1>1, <1>3
  <2> QED
    BY <1>2, <2>1 DEF DefaultsDone, Renewed, DefaultTables
<1>7. k > 2 /\ k > 1 /\ k > 14 /\ k > 19
  BY <1>1, <1>3
<1>8. grants[Custom] = {} /\ \A r \in Roles : grants[r] = SeedGrants[r]
  BY <1>2, <1>4, <1>7, GrantedInAll DEF GrantsDone
<1>9. active = Doors
  BY <1>2, <1>7 DEF DoorsDone, Doors, SeedTypeOK
<1> QED
  BY <1>5, <1>6, <1>8, <1>9 DEF Restored

-----------------------------------------------------------------------------
(* The invariant.                                                            *)

LEMMA ScriptTyped ==
  ASSUME part \in {"demo", "northfield"}
  PROVE  /\ Script = ScriptOf(part) /\ Len(Script) \in Nat /\ Len(Script) >= 1
         /\ \A k \in 1 .. Len(Script) : Script[k] \in Step
<1> DEFINE n == Len(Rebuild(part))
<1>1. n \in 1 .. 39 /\ Len(ScriptOf(part)) = 56 + n
  BY RebuildInOrder, Layout
<1>2. Len(ScriptOf(part)) \in Nat /\ Len(ScriptOf(part)) >= 1
  BY <1>1
<1>3. Prepare \o Reset \in Seq(Step) /\ Rebuild(part) \in Seq(Step)
  BY PartsTyped, Joined
<1>4. ScriptOf(part) \in Seq(Step)
  BY <1>3, Joined DEF ScriptOf
<1>5. \A k \in 1 .. Len(ScriptOf(part)) : ScriptOf(part)[k] \in Step
  BY <1>4
<1> QED
  BY <1>2, <1>5, ScriptFollows

LEMMA SeedInitInv == SeedInit => SeedInv
<1> SUFFICES ASSUME SeedInit PROVE SeedInv
  OBVIOUS
<1>1. at \in 0 .. Len(Script) /\ 0 \in 0 .. MaxRuns /\ 0 \in 0 .. MaxStops /\ 0 \in 0 .. MaxWrites
  <2>1. Len(Script) \in Nat
    BY ScriptTyped DEF SeedInit
  <2> QED
    BY <2>1, SeedingAssumption DEF SeedInit
<1>2. SeedTypeOK
  BY <1>1 DEF SeedInit, SeedTypeOK
<1> QED
  BY <1>2 DEF SeedInit, SeedInv, RerunRestores

LEMMA StartRunKeeps == ASSUME SeedInv, StartRun PROVE SeedInv'
<1> USE DEF StartRun
<1>1. Script' = Script /\ Len(Script) \in Nat /\ Len(Script) >= 1
  BY ScriptTyped DEF Script, SeedInv, SeedTypeOK
<1>2. rows' \in [Tables -> SUBSET Makers]
  BY DEF SeedInv, SeedTypeOK, Makers
<1>3. runs + 1 \in 0 .. MaxRuns
  BY SeedingAssumption DEF SeedInv, SeedTypeOK
<1>4. 1 \in 0 .. Len(Script')
  BY <1>1
<1>5. SeedTypeOK'
  BY <1>2, <1>3, <1>4 DEF SeedInv, SeedTypeOK
<1>6. \A k : k = 1 => RunInv(part, k)'
  BY DEF RunInv, DefaultsDone, GrantsDone, DoorsDone, TablesDone
<1>7. RunInv(part, at)'
  BY <1>6
<1> QED
  BY <1>5, <1>7 DEF SeedInv, RerunRestores

LEMMA SeedStepKeeps == ASSUME SeedInv, SeedStep PROVE SeedInv'
<1> DEFINE m == Len(Script)
<1>1. SeedTypeOK /\ at # 0 /\ outcome = "running" /\ (~disturbed => RunInv(part, at))
  BY DEF SeedInv, SeedStep
<1>2. /\ Script = ScriptOf(part) /\ m \in Nat /\ at \in 1 .. m /\ Script[at] \in Step
      /\ part \in {"demo", "northfield"} /\ part' = part /\ Script' = Script
  BY <1>1, ScriptTyped DEF SeedTypeOK, SeedStep, Script
<1>3. Effect(Script[at])
  BY DEF SeedStep, Effect
<1>4. /\ rows' \in [Tables -> SUBSET Makers] /\ active' \subseteq Doors
      /\ grants' \in [Roles \cup {Custom} -> SUBSET Permissions]
  BY <1>1, <1>2, <1>3, StepTyped
<1>5. /\ at = m => at' = 0 /\ outcome' = "done"
      /\ at # m => at' = at + 1 /\ outcome' = "running"
      /\ at' \in 0 .. m /\ disturbed' = disturbed
  BY <1>1, <1>2 DEF SeedStep
<1>6. SeedTypeOK'
  BY <1>1, <1>2, <1>4, <1>5 DEF SeedTypeOK, SeedStep
<1>7. ~disturbed => \A p, k : p = part /\ k = at => RunInv(p, k + 1)'
  BY <1>1, <1>2, <1>3, StepAdvances
<1>8. CASE at # m
  <2>1. at' # 0 /\ at' = at + 1 /\ outcome' = "running"
    BY <1>2, <1>5, <1>8
  <2>2. ~disturbed' => RunInv(part, at)'
    BY <1>2, <1>5, <1>7, <2>1
  <2> QED
    BY <1>6, <2>1, <2>2 DEF SeedInv, RerunRestores
<1>9. CASE at = m
  <2>1. at' = 0 /\ outcome' = "done"
    BY <1>5, <1>9
  <2>2. LastStepRestores'
    BY RunRestored, PTL
  <2>3. ~disturbed => \A p : p = part => RunInv(p, Len(ScriptOf(p)) + 1)'
    BY <1>2, <1>7, <1>9
  <2>4. ~disturbed' => \A p : p = part => Restored(p)'
    BY <1>2, <1>5, <1>6, <2>2, <2>3 DEF LastStepRestores
  <2>5. Script' = ScriptOf(part)
    BY <1>2
  <2>6. RerunRestores'
    BY <1>2, <2>1, <2>4, <2>5 DEF RerunRestores, Restored
  <2> QED
    BY <1>6, <2>1, <2>6 DEF SeedInv
<1> QED
  BY <1>8, <1>9

LEMMA RefuseRunKeeps == ASSUME SeedInv, RefuseRun PROVE SeedInv'
<1>1. Script' = Script
  BY DEF RefuseRun, Script
<1>2. SeedTypeOK'
  BY <1>1, ScriptTyped DEF SeedInv, SeedTypeOK, RefuseRun
<1>3. Script = ScriptOf(part) /\ part \in {"demo", "northfield"} /\ at \in 1 .. Len(ScriptOf(part))
  BY ScriptTyped DEF SeedInv, SeedTypeOK, RefuseRun
<1>4. disturbed \/ elsewhere
  BY <1>3, NeverRefused DEF SeedInv, RefuseRun
<1> QED
  BY <1>2, <1>4 DEF SeedInv, RerunRestores, RefuseRun

LEMMA StopRunKeeps == ASSUME SeedInv, StopRun PROVE SeedInv'
<1>1. Script' = Script
  BY DEF StopRun, Script
<1>2. stops + 1 \in 0 .. MaxStops
  BY SeedingAssumption DEF SeedInv, SeedTypeOK, StopRun
<1>3. SeedTypeOK'
  BY <1>1, <1>2, ScriptTyped DEF SeedInv, SeedTypeOK, StopRun
<1> QED
  BY <1>3 DEF SeedInv, RerunRestores, StopRun

\* What the office writes disturbs the run: nothing is promised of it any more.
LEMMA OfficeWritesKeep ==
  ASSUME SeedInv, OfficeWrites, rows' \in [Tables -> SUBSET Makers], elsewhere' \in BOOLEAN,
         grants' \in [Roles \cup {Custom} -> SUBSET Permissions], active' \subseteq Doors
  PROVE  SeedInv'
<1>1. Script' = Script
  BY DEF OfficeWrites, Script
<1>2. writes + 1 \in 0 .. MaxWrites
  BY SeedingAssumption DEF SeedInv, SeedTypeOK, OfficeWrites
<1>3. SeedTypeOK'
  BY <1>1, <1>2, ScriptTyped DEF SeedInv, SeedTypeOK, OfficeWrites
<1> QED
  BY <1>3 DEF SeedInv, RerunRestores, OfficeWrites

LEMMA SeedNextKeeps == SeedInv /\ [SeedNext]_seedVars => SeedInv'
<1> SUFFICES ASSUME SeedInv, [SeedNext]_seedVars PROVE SeedInv'
  OBVIOUS
<1>1. SeedTypeOK
  BY DEF SeedInv
<1>2. CASE StartRun
  BY <1>2, StartRunKeeps
<1>3. CASE SeedStep
  BY <1>3, SeedStepKeeps
<1>4. CASE RefuseRun
  BY <1>4, RefuseRunKeeps
<1>5. CASE StopRun
  BY <1>5, StopRunKeeps
<1>6. ASSUME NEW t \in Touched, NEW m \in Makers, AddRow(t, m) PROVE SeedInv'
  BY <1>1, <1>6, OfficeWritesKeep DEF AddRow, SeedTypeOK
<1>7. ASSUME NEW t \in Touched, ClearRows(t) PROVE SeedInv'
  BY <1>1, <1>7, OfficeWritesKeep DEF ClearRows, Emptied, SeedTypeOK
<1>8. CASE MoveEmail
  BY <1>1, <1>8, OfficeWritesKeep DEF MoveEmail, SeedTypeOK
<1>9. ASSUME NEW r \in {"ADMIN", Custom}, NEW ps \in {{}, {"work"}}, SetRole(r, ps) PROVE SeedInv'
  <2>1. ps \subseteq Permissions
    BY DEF Permissions
  <2> QED
    BY <1>1, <1>9, <2>1, OfficeWritesKeep DEF SetRole, SeedTypeOK
<1>10. ASSUME NEW d \in Doors, Close(d) PROVE SeedInv'
  BY <1>1, <1>10, OfficeWritesKeep DEF Close, SeedTypeOK
<1>11. CASE UNCHANGED seedVars
  <2>1. Script' = Script
    BY <1>11 DEF seedVars, Script
  <2>2. SeedTypeOK'
    BY <1>1, <1>11, <2>1 DEF seedVars, SeedTypeOK
  <2>3. \A p, k : RunInv(p, k)' <=> RunInv(p, k)
    BY <1>11 DEF seedVars, RunInv, DefaultsDone, GrantsDone, DoorsDone, TablesDone, Renewed
  <2>4. RerunRestores'
    BY <1>11, <2>1 DEF seedVars, SeedInv, RerunRestores
  <2> QED
    BY <1>11, <2>2, <2>3, <2>4 DEF seedVars, SeedInv
<1> QED
  BY <1>2, <1>3, <1>4, <1>5, <1>6, <1>7, <1>8, <1>9, <1>10, <1>11 DEF SeedNext

LEMMA SeedInvAlways == SeedSpec => []SeedInv
  BY SeedInitInv, SeedNextKeeps, PTL DEF SeedSpec

\* Types (seed.ts): whatever tables the office writes to, the rows of every table, the grants
\* and the doors stay what the script and the pages can make of them.
THEOREM SeedTyped == SeedSpec => []SeedTypeOK
  BY SeedInvAlways, PTL DEF SeedInv

\* The script may be run again (seed.ts, main and resetDemoOrganizationData): whatever earlier
\* runs and the office left, a run nobody's writes disturb is refused only while another
\* organization holds an e-mail of the seed, and one that ends restores both organizations,
\* the roles and the doors.
THEOREM RerunRestoresAlways == SeedSpec => []RerunRestores
  BY SeedInvAlways, PTL DEF SeedInv

=============================================================================
