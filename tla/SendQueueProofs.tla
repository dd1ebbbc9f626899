--------------------------- MODULE SendQueueProofs ---------------------------
(***************************************************************************)
(* Theorems about SendQueue, for every set of messages that satisfies its  *)
(* assumptions.  The first lemmas say what one sweep over a list does; the *)
(* invariance proofs then go through the actions.  The last section is     *)
(* about CommandLink: the queue over its connection.                       *)
(***************************************************************************)
EXTENDS SendQueueOutbox, CommandLink, TLAPS, SequenceTheorems, WellFoundedInduction

-----------------------------------------------------------------------------
(* Sequences and minima                                                     *)

LEMMA FunctionIsSeq ==
  ASSUME NEW S, NEW n \in Nat, NEW f \in [1 .. n -> S]
  PROVE  f \in Seq(S) /\ Len(f) = n /\ DOMAIN f = 1 .. n
BY SeqDef

\* The front of r joined to the back of q, without the d-th element.
Joined(q, r, d) == SubSeq(r, 1, d - 1) \o SubSeq(q, d + 1, Len(q))

LEMMA JoinedType ==
  ASSUME NEW S, NEW q \in Seq(S), NEW r \in Seq(S), Len(r) = Len(q),
         NEW d \in 1 .. Len(q)
  PROVE  Joined(q, r, d) \in Seq(S) /\ Len(Joined(q, r, d)) = Len(q) - 1
<1> DEFINE low == SubSeq(r, 1, d - 1)
           high == SubSeq(q, d + 1, Len(q))
<1>1. Len(low) = d - 1 /\ low \in Seq(S)
  OBVIOUS
<1>2. Len(high) = Len(q) - d /\ high \in Seq(S)
  OBVIOUS
<1> HIDE DEF low, high
<1>3. low \o high \in Seq(S) /\ Len(low \o high) = Len(q) - 1
  BY <1>1, <1>2
<1> QED  BY <1>3 DEF low, high, Joined

LEMMA JoinedDomain ==
  ASSUME NEW S, NEW q \in Seq(S), NEW r \in Seq(S), Len(r) = Len(q),
         NEW d \in 1 .. Len(q)
  PROVE  DOMAIN Joined(q, r, d) = 1 .. Len(q) - 1
BY JoinedType

LEMMA JoinedElements ==
  ASSUME NEW S, NEW q \in Seq(S), NEW r \in Seq(S), Len(r) = Len(q),
         NEW d \in 1 .. Len(q), NEW k \in 1 .. Len(q) - 1
  PROVE  /\ k < d => Joined(q, r, d)[k] = r[k]
         /\ k >= d => Joined(q, r, d)[k] = q[k + 1]
<1> DEFINE low == SubSeq(r, 1, d - 1)
           high == SubSeq(q, d + 1, Len(q))
<1>1. Len(low) = d - 1 /\ low \in Seq(S) /\ \A i \in 1 .. d - 1 : low[i] = r[i]
  OBVIOUS
<1>2. Len(high) = Len(q) - d /\ high \in Seq(S) /\ \A i \in 1 .. Len(q) - d : high[i] = q[d + i]
  OBVIOUS
<1> HIDE DEF low, high
<1>3. ASSUME k < d PROVE (low \o high)[k] = r[k]
  <2>1. k \in 1 .. Len(low) /\ k \in 1 .. d - 1
    BY <1>1, <1>3
  <2>2. (low \o high)[k] = low[k]
    BY <1>1, <1>2, <2>1
  <2> QED  BY <1>1, <2>1, <2>2
<1>4. ASSUME k >= d PROVE (low \o high)[k] = q[k + 1]
  <2> DEFINE i == k - Len(low)
  <2>1. i \in 1 .. Len(high) /\ k = Len(low) + i /\ i \in 1 .. Len(q) - d /\ d + i = k + 1
    BY <1>1, <1>2, <1>4
  <2> HIDE DEF i
  <2>2. (low \o high)[Len(low) + i] = high[i]
    BY <1>1, <1>2, <2>1
  <2>3. high[i] = q[d + i]
    BY <1>2, <2>1
  <2> QED  BY <2>1, <2>2, <2>3
<1> QED  BY <1>3, <1>4 DEF low, high, Joined

\* A nonempty set of positive integers has the minimum Min chooses.
LEMMA MinProperties ==
  ASSUME NEW S, S \subseteq Nat, S # {}
  PROVE  Min(S) \in S /\ \A i \in S : Min(S) <= i
<1>1. PICK x \in S : \A y \in S : ~(<<y, x>> \in OpToRel(<, Nat))
  BY NatLessThanWellFounded, WFMin
<1>2. \A y \in S : x <= y
  <2> TAKE y \in S
  <2>1. ~(y < x)
    BY <1>1 DEF OpToRel
  <2> QED  BY <2>1
<1> QED  BY <1>2 DEF Min

-----------------------------------------------------------------------------
(* One sweep over a list                                                    *)

\* The place in the list before the sweep of the k-th entry after it.
Origin(r, k) == IF Erasing(r) # {} /\ Min(Erasing(r)) <= k THEN k + 1 ELSE k

\* r is an update of the list q, entry by entry.
Updates(q, r) ==
  /\ q \in Seq(Entries)
  /\ r \in Seq(Entries)
  /\ Len(r) = Len(q)

\* What is left after a sweep: each entry is an updated entry that is not empty
\* or, behind an erased one, an entry that was not looked at.
LEMMA SweepProperties ==
  ASSUME NEW q, NEW r, Updates(q, r)
  PROVE  /\ Sweep(q, r) \in Seq(Entries)
         /\ \A k \in DOMAIN Sweep(q, r) :
              /\ Origin(r, k) \in DOMAIN q
              /\ \/ Sweep(q, r)[k] = r[Origin(r, k)] /\ ~Empty(r[Origin(r, k)])
                 \/ /\ Sweep(q, r)[k] = q[Origin(r, k)]
                    /\ Erasing(r) # {} /\ Min(Erasing(r)) < Origin(r, k)
         /\ Erasing(r) # {} =>
              /\ Min(Erasing(r)) \in Erasing(r)
              /\ \A k \in DOMAIN Sweep(q, r) : Origin(r, k) # Min(Erasing(r))
<1>1. Len(q) \in Nat /\ DOMAIN q = 1 .. Len(q) /\ DOMAIN r = 1 .. Len(q)
  BY LenProperties DEF Updates
<1>2. CASE Erasing(r) = {}
  BY <1>1, <1>2 DEF Sweep, Origin, Erasing, Updates
<1>3. CASE Erasing(r) # {}
  <2>0. PICK d : d = Min(Erasing(r))
    OBVIOUS
  <2>1. d \in Erasing(r) /\ \A i \in Erasing(r) : d <= i
    BY <1>1, <1>3, <2>0, MinProperties DEF Erasing
  <2>2. d \in 1 .. Len(q)
    BY <1>1, <2>1 DEF Erasing
  <2>3. PICK c : c = Joined(q, r, d)
    OBVIOUS
  <2>4. /\ c \in Seq(Entries)
        /\ DOMAIN c = 1 .. Len(q) - 1
        /\ \A k \in 1 .. Len(q) - 1 :
             (k < d => c[k] = r[k]) /\ (k >= d => c[k] = q[k + 1])
    <3>1. q \in Seq(Entries) /\ r \in Seq(Entries) /\ Len(r) = Len(q)
      BY DEF Updates
    <3>2. c \in Seq(Entries)
      BY <2>2, <2>3, <3>1, JoinedType
    <3>3. DOMAIN c = 1 .. Len(q) - 1
      BY <2>2, <2>3, <3>1, JoinedDomain
    <3>4. \A k \in 1 .. Len(q) - 1 :
            (k < d => c[k] = r[k]) /\ (k >= d => c[k] = q[k + 1])
      BY <2>2, <2>3, <3>1, JoinedElements
    <3> QED  BY <3>2, <3>3, <3>4
  <2>5. Sweep(q, r) = c
    BY <1>3, <2>0, <2>3 DEF Sweep, Joined
  <2>6. \A k : Origin(r, k) = IF d <= k THEN k + 1 ELSE k
    BY <1>3, <2>0 DEF Origin
  <2>8. \A i \in 1 .. d - 1 : ~Empty(r[i])
    <3> TAKE i \in 1 .. d - 1
    <3>1. i \in DOMAIN r /\ ~(d <= i)
      BY <1>1, <2>2
    <3> QED  BY <2>1, <3>1 DEF Erasing
  <2>9. ASSUME NEW k \in DOMAIN c
        PROVE  /\ Origin(r, k) \in DOMAIN q
               /\ Origin(r, k) # d
               /\ \/ c[k] = r[Origin(r, k)] /\ ~Empty(r[Origin(r, k)])
                  \/ c[k] = q[Origin(r, k)] /\ d < Origin(r, k)
    <3>1. k \in 1 .. Len(q) - 1
      BY <2>4, <2>9
    <3>2. CASE k < d
      BY <1>1, <2>2, <2>4, <2>6, <2>8, <3>1, <3>2
    <3>3. CASE k >= d
      BY <1>1, <2>2, <2>4, <2>6, <3>1, <3>3
    <3> QED  BY <1>1, <2>2, <3>1, <3>2, <3>3
  <2> QED  BY <1>3, <2>0, <2>1, <2>4, <2>5, <2>9
<1> QED  BY <1>2, <1>3

\* Two entries left by a sweep come from two entries.
LEMMA OriginInjective ==
  ASSUME NEW r, Erasing(r) \subseteq Nat,
         NEW k \in Nat, NEW l \in Nat, Origin(r, k) = Origin(r, l)
  PROVE  k = l
<1>1. Erasing(r) # {} => Min(Erasing(r)) \in Nat
  BY MinProperties
<1> QED  BY <1>1 DEF Origin

-----------------------------------------------------------------------------
(* What a list keeps when entries are popped, expired and erased            *)

LiveEntry(e) == ~Empty(e) /\ (e.first \/ e.ticks # 0)

Distinct(q) == \A i, j \in DOMAIN q : q[i].msg = q[j].msg => i = j

\* s holds messages of q only, each of them once if q does, and can be sent.
Lessens(q, s) ==
  /\ s \in Seq(Entries)
  /\ \A k \in DOMAIN s : LiveEntry(s[k])
  /\ \A k \in DOMAIN s : \E i \in DOMAIN q : s[k].msg = q[i].msg
  /\ Distinct(q) => Distinct(s)

\* r is an update that changes no message and leaves an entry live or empty.
Refreshes(q, r) ==
  /\ Updates(q, r)
  /\ \A i \in DOMAIN q :
       /\ LiveEntry(q[i])
       /\ r[i].msg = q[i].msg
       /\ LiveEntry(r[i]) \/ Empty(r[i])

LEMMA SweepLessens ==
  ASSUME NEW q, NEW r, Refreshes(q, r)
  PROVE  Lessens(q, Sweep(q, r))
<1>1. Updates(q, r)
  BY DEF Refreshes
<1>2. PICK s : s = Sweep(q, r)
  OBVIOUS
<1>3. /\ s \in Seq(Entries)
      /\ \A k \in DOMAIN s :
           /\ Origin(r, k) \in DOMAIN q
           /\ \/ s[k] = r[Origin(r, k)] /\ ~Empty(r[Origin(r, k)])
              \/ s[k] = q[Origin(r, k)]
  BY <1>1, <1>2, SweepProperties
<1>4. \A k \in DOMAIN s : LiveEntry(s[k]) /\ s[k].msg = q[Origin(r, k)].msg
  BY <1>3 DEF Refreshes
<1>5. ASSUME Distinct(q) PROVE Distinct(s)
  <2> SUFFICES ASSUME NEW k \in DOMAIN s, NEW l \in DOMAIN s, s[k].msg = s[l].msg
               PROVE  k = l
    BY DEF Distinct
  <2>1. Origin(r, k) = Origin(r, l)
    BY <1>3, <1>4, <1>5 DEF Distinct
  <2>2. k \in Nat /\ l \in Nat
    BY <1>3, LenProperties
  <2>3. Erasing(r) \subseteq Nat
    BY <1>1, LenProperties DEF Updates, Erasing
  <2> QED  BY <2>1, <2>2, <2>3, OriginInjective
<1> QED  BY <1>2, <1>3, <1>4, <1>5 DEF Lessens

\* Every operation on an entry keeps its message and its type.
LEMMA EntryOperations ==
  ASSUME NEW e \in Entries
  PROVE  /\ Pop(e) \in Entries /\ Pop(e).msg = e.msg
         /\ Touch(e) \in Entries /\ Touch(e).msg = e.msg
         /\ Expire(e) \in Entries /\ Expire(e).msg = e.msg
         /\ Expire(e) = e \/ Expire(e).first \/ Empty(Expire(e))
<1>1. Ticks[e.msg] \in Int \ {0}
  BY MessagesAssumption DEF Entries
<1>2. Pop(e) \in Entries /\ Pop(e).msg = e.msg
  BY DEF Pop, Entries
<1>3. Reset(Pop(e)) \in Entries /\ Reset(Pop(e)).msg = e.msg /\ Reset(Pop(e)).first
  BY <1>1, <1>2 DEF Reset, Entries
<1>4. Touch(e) \in Entries /\ Touch(e).msg = e.msg
  <2> DEFINE t == IF e.ticks > 0 THEN e.ticks - 1 ELSE e.ticks
  <2>1. t \in Int
    BY DEF Entries
  <2>2. Touch(e) = [e EXCEPT !.first = FALSE, !.due = FALSE, !.ticks = t]
    BY DEF Touch
  <2> HIDE DEF t
  <2> QED  BY <2>1, <2>2 DEF Entries
<1> QED  BY <1>2, <1>3, <1>4 DEF Expire

AllLive(q) == \A i \in DOMAIN q : LiveEntry(q[i])

\* Popping the entries a packet is about ...
LEMMA PoppedRefreshes ==
  ASSUME NEW q \in Seq(Entries), AllLive(q), NEW a
  PROVE  Refreshes(q, Popped(q, a))
<1>1. Len(q) \in Nat /\ DOMAIN q = 1 .. Len(q) /\ \A i \in DOMAIN q : q[i] \in Entries
  BY LenProperties, ElementOfSeq
<1>2. PICK r : r = Popped(q, a)
  OBVIOUS
<1>3. /\ DOMAIN r = 1 .. Len(q)
      /\ \A i \in DOMAIN q : r[i] = Pop(q[i]) \/ r[i] = q[i]
  BY <1>1, <1>2 DEF Popped
<1>4. ASSUME NEW i \in DOMAIN q
      PROVE  /\ r[i] \in Entries /\ r[i].msg = q[i].msg
             /\ LiveEntry(r[i]) \/ Empty(r[i])
  <2>1. q[i] \in Entries /\ LiveEntry(q[i])
    BY <1>1 DEF AllLive
  <2>2. Pop(q[i]) \in Entries /\ Pop(q[i]).msg = q[i].msg
    BY <2>1, EntryOperations
  <2>3. Pop(q[i]).first = q[i].first /\ Pop(q[i]).ticks = q[i].ticks
    BY <2>1 DEF Pop, Entries
  <2> QED  BY <1>3, <2>1, <2>2, <2>3 DEF LiveEntry
<1>5. r \in [1 .. Len(q) -> Entries]
  <2>1. r = [i \in 1 .. Len(q) |-> r[i]]
    BY <1>1, <1>2 DEF Popped
  <2> QED  BY <1>1, <1>4, <2>1
<1>6. Updates(q, r)
  BY <1>1, <1>5, FunctionIsSeq DEF Updates
<1> QED  BY <1>2, <1>4, <1>6 DEF Refreshes, AllLive

\* ... and looking for entries to delete, after one was touched or none.
LEMMA ExpiredRefreshes ==
  ASSUME NEW q \in Seq(Entries), AllLive(q),
         NEW t \in Seq(Entries), Len(t) = Len(q),
         \A i \in DOMAIN q : t[i] = q[i] \/ t[i] = Touch(q[i])
  PROVE  Refreshes(q, Expired(t))
<1>1. /\ Len(q) \in Nat /\ DOMAIN q = 1 .. Len(q) /\ DOMAIN t = 1 .. Len(q)
      /\ \A i \in DOMAIN q : q[i] \in Entries /\ t[i] \in Entries
  BY LenProperties, ElementOfSeq
<1>2. PICK r : r = Expired(t)
  OBVIOUS
<1>3. DOMAIN r = 1 .. Len(q) /\ \A i \in DOMAIN q : r[i] = Expire(t[i])
  BY <1>1, <1>2 DEF Expired
<1>4. ASSUME NEW i \in DOMAIN q
      PROVE  /\ r[i] \in Entries /\ r[i].msg = q[i].msg
             /\ LiveEntry(r[i]) \/ Empty(r[i])
  <2>1. q[i] \in Entries /\ t[i] \in Entries /\ LiveEntry(q[i])
    BY <1>1 DEF AllLive
  <2>2. t[i].msg = q[i].msg
    BY <2>1, EntryOperations
  <2>3. r[i] \in Entries /\ r[i].msg = q[i].msg
    BY <1>3, <2>1, <2>2, EntryOperations
  <2>4. CASE t[i].first \/ t[i].ticks # 0
    <3>1. r[i] = t[i]
      BY <1>3, <2>4 DEF Expire
    <3> QED  BY <2>3, <2>4, <3>1 DEF LiveEntry
  <2>5. CASE ~(t[i].first \/ t[i].ticks # 0)
    <3>1. Empty(Pop(t[i])) \/ r[i] = Reset(Pop(t[i]))
      BY <1>3, <2>5 DEF Expire
    <3>2. Reset(Pop(t[i])).first
      BY <2>1 DEF Reset, Pop, Entries
    <3>3. Empty(Pop(t[i])) => r[i] = Pop(t[i])
      BY <1>3, <2>5 DEF Expire
    <3> QED  BY <2>3, <3>1, <3>2, <3>3 DEF LiveEntry
  <2> QED  BY <2>3, <2>4, <2>5
<1>5. r \in [1 .. Len(q) -> Entries]
  <2>1. r = [i \in 1 .. Len(q) |-> r[i]]
    BY <1>1, <1>2 DEF Expired
  <2> QED  BY <1>1, <1>4, <2>1
<1>6. Updates(q, r)
  BY <1>1, <1>5, FunctionIsSeq DEF Updates
<1> QED  BY <1>2, <1>4, <1>6 DEF Refreshes, AllLive

-----------------------------------------------------------------------------
(* The lists together                                                       *)

Lists == [Priorities -> Seq(Entries)]

\* The inductive invariant.  LatestWins alone is not inductive: a submission
\* erases one entry only, so no two entries may concern the same request; that
\* an entry of a single message becomes empty when it is popped needs
\* NoExhaustedEntry; and a message is superseded only after its submission.
Inv ==
  /\ TypeOK
  /\ NoExhaustedEntry
  /\ OnePlace
  /\ OneRequestPending
  /\ LatestWins
  /\ superseded \cap fresh = {}

LEMMA InvLists ==
  ASSUME Inv, NEW p \in Priorities
  PROVE  /\ m_send[p] \in Seq(Entries)
         /\ AllLive(m_send[p])
         /\ Distinct(m_send[p])
BY DEF Inv, TypeOK, NoExhaustedEntry, OnePlace, AllLive, LiveEntry, Distinct

LEMMA LessensItself ==
  ASSUME NEW q \in Seq(Entries), AllLive(q)
  PROVE  Lessens(q, q)
BY DEF Lessens, AllLive

LEMMA PopMatchingLessens ==
  ASSUME Inv, NEW a
  PROVE  /\ PopMatching(a) \in Lists
         /\ \A p \in Priorities : Lessens(m_send[p], PopMatching(a)[p])
<1>1. ASSUME NEW p \in Priorities
      PROVE  Lessens(m_send[p], PopMatching(a)[p])
  <2>1. m_send[p] \in Seq(Entries) /\ AllLive(m_send[p])
    BY InvLists
  <2>2. Lessens(m_send[p], m_send[p])
    BY <2>1, LessensItself
  <2>3. Lessens(m_send[p], Sweep(m_send[p], Popped(m_send[p], a)))
    BY <2>1, PoppedRefreshes, SweepLessens
  <2> QED  BY <2>2, <2>3 DEF PopMatching
<1>2. \A p \in Priorities : PopMatching(a)[p] \in Seq(Entries)
  BY <1>1 DEF Lessens
<1>3. PopMatching(a) = [p \in Priorities |-> PopMatching(a)[p]]
  BY DEF PopMatching
<1> QED  BY <1>1, <1>2, <1>3 DEF Lists

\* A step after which every list holds less than before.
Thins ==
  /\ m_send' \in Lists
  /\ \A p \in Priorities : Lessens(m_send[p], m_send'[p])

LEMMA ThinsKeepsMessages ==
  ASSUME Thins, NEW m, InQueue(m)'
  PROVE  InQueue(m)
<1>1. PICK p \in Priorities : \E k \in DOMAIN m_send'[p] : m_send'[p][k].msg = m
  BY DEF InQueue
<1>2. \E i \in DOMAIN m_send[p] : m_send[p][i].msg = m
  BY <1>1 DEF Thins, Lessens
<1> QED  BY <1>2 DEF InQueue

LEMMA ThinsPreservesInv ==
  ASSUME Inv, Thins, TypeOK', UNCHANGED <<fresh, superseded>>
  PROVE  Inv'
<1>1. NoExhaustedEntry'
  BY DEF Thins, Lessens, LiveEntry, NoExhaustedEntry
<1>2. OnePlace'
  <2>1. ASSUME NEW p \in Priorities, NEW k \in DOMAIN m_send'[p]
        PROVE  Prio[m_send'[p][k].msg] = p /\ m_send'[p][k].msg \notin fresh'
    BY <2>1 DEF Inv, OnePlace, Thins, Lessens
  <2>2. ASSUME NEW p \in Priorities
        PROVE  Distinct(m_send'[p])
    BY <2>2, InvLists DEF Thins, Lessens
  <2> QED  BY <2>1, <2>2 DEF OnePlace, Distinct
<1>3. OneRequestPending'
  BY ThinsKeepsMessages DEF Inv, OneRequestPending
<1>4. LatestWins'
  BY DEF Inv, LatestWins, Thins, Lessens
<1>5. (superseded \cap fresh = {})'
  BY DEF Inv
<1> QED  BY <1>1, <1>2, <1>3, <1>4, <1>5 DEF Inv

-----------------------------------------------------------------------------
(* The steps of the threads other than a submission                         *)

LEMMA ReplyThins ==
  ASSUME Inv, NEW a, ProcessFromParent(a)
  PROVE  Thins
BY PopMatchingLessens DEF ProcessFromParent, Thins

LEMMA TransmitThins ==
  ASSUME Inv, Transmit
  PROVE  Thins
<1>1. PICK i \in DOMAIN m_send[turn] :
        m_send' = [m_send EXCEPT ![turn] =
                     Sweep(m_send[turn],
                           Expired([m_send[turn] EXCEPT ![i] = Touch(@)]))]
  BY DEF Transmit
<1>2. turn \in Priorities /\ m_send \in Lists
  BY DEF Inv, TypeOK, Lists
<1>3. PICK q : q = m_send[turn]
  OBVIOUS
<1>4. q \in Seq(Entries) /\ AllLive(q) /\ i \in 1 .. Len(q) /\ DOMAIN q = 1 .. Len(q)
  BY <1>1, <1>2, <1>3, InvLists, LenProperties
<1>5. PICK t : t = [q EXCEPT ![i] = Touch(@)]
  OBVIOUS
<1>6. Touch(q[i]) \in Entries
  BY <1>4, ElementOfSeq, EntryOperations
<1>7. t \in Seq(Entries) /\ Len(t) = Len(q)
  BY <1>4, <1>5, <1>6, ExceptSeq
<1>8. \A j \in DOMAIN q : t[j] = q[j] \/ t[j] = Touch(q[j])
  BY <1>4, <1>5
<1>9. Lessens(q, Sweep(q, Expired(t)))
  BY <1>4, <1>7, <1>8, ExpiredRefreshes, SweepLessens
<1>10. \A p \in Priorities \ {turn} : Lessens(m_send[p], m_send[p])
  BY InvLists, LessensItself
<1>11. m_send' = [m_send EXCEPT ![turn] = Sweep(q, Expired(t))]
  BY <1>1, <1>3, <1>5
<1>12. Sweep(q, Expired(t)) \in Seq(Entries)
  BY <1>9 DEF Lessens
<1> QED  BY <1>2, <1>3, <1>9, <1>10, <1>11, <1>12 DEF Thins, Lists

LEMMA NothingDueThins ==
  ASSUME Inv, NothingDue
  PROVE  Thins
<1>1. turn \in Priorities /\ m_send \in Lists
  BY DEF Inv, TypeOK, Lists
<1>2. PICK q : q = m_send[turn]
  OBVIOUS
<1>3. q \in Seq(Entries) /\ AllLive(q)
  BY <1>1, <1>2, InvLists
<1>4. Lessens(q, Sweep(q, Expired(q)))
  BY <1>3, ExpiredRefreshes, SweepLessens
<1>5. \A p \in Priorities \ {turn} : Lessens(m_send[p], m_send[p])
  BY InvLists, LessensItself
<1>6. m_send' = [m_send EXCEPT ![turn] = Sweep(q, Expired(q))]
  BY <1>2 DEF NothingDue
<1>7. Sweep(q, Expired(q)) \in Seq(Entries)
  BY <1>4 DEF Lessens
<1> QED  BY <1>1, <1>2, <1>4, <1>5, <1>6, <1>7 DEF Thins, Lists

LEMMA ElapseThins ==
  ASSUME Inv, NEW p \in Priorities, NEW i \in DOMAIN m_send[p], Elapse(p, i)
  PROVE  Thins
<1>1. m_send \in Lists
  BY DEF Inv, TypeOK, Lists
<1>2. PICK q : q = m_send[p]
  OBVIOUS
<1>3. /\ q \in Seq(Entries) /\ AllLive(q)
      /\ i \in 1 .. Len(q) /\ DOMAIN q = 1 .. Len(q) /\ q[i] \in Entries
  BY <1>2, InvLists, LenProperties, ElementOfSeq
<1>4. PICK e : e = [q[i] EXCEPT !.due = TRUE]
  OBVIOUS
<1>5. e \in Entries /\ e.msg = q[i].msg /\ LiveEntry(e)
  BY <1>3, <1>4 DEF Entries, LiveEntry, AllLive, Empty
<1>6. PICK s : s = [q EXCEPT ![i] = e]
  OBVIOUS
<1>7. s \in Seq(Entries) /\ DOMAIN s = DOMAIN q
  BY <1>3, <1>5, <1>6, ExceptSeq
<1>8. \A j \in DOMAIN q : s[j].msg = q[j].msg /\ LiveEntry(s[j])
  BY <1>3, <1>5, <1>6 DEF AllLive
<1>9. Lessens(q, s)
  BY <1>7, <1>8 DEF Lessens, Distinct
<1>10. \A h \in Priorities \ {p} : Lessens(m_send[h], m_send[h])
  BY InvLists, LessensItself
<1>11. m_send' = [m_send EXCEPT ![p] = s]
  BY <1>2, <1>4, <1>6 DEF Elapse
<1> QED  BY <1>1, <1>2, <1>7, <1>9, <1>10, <1>11 DEF Thins, Lists

-----------------------------------------------------------------------------
(* A submission                                                             *)

LEMMA PopLast ==
  ASSUME NEW e \in Entries, e.pos = 1, Len(Packets[e.msg]) = 1
  PROVE  Empty(Pop(e))
<1>1. PICK n : n = Pop(e)
  OBVIOUS
<1>2. n.pos = 2
  BY <1>1 DEF Pop, Entries
<1>3. n.msg = e.msg
  BY <1>1 DEF Pop, Entries
<1>4. Len(Packets[n.msg]) = 1
  BY <1>3
<1>5. Empty(n)
  BY <1>2, <1>4 DEF Empty
<1> QED  BY <1>1, <1>5

\* The packet of a pending single message is its only one.
LEMMA SingleFront ==
  ASSUME Inv, NEW p \in Priorities, NEW i \in DOMAIN m_send[p],
         m_send[p][i].msg \in Singles
  PROVE  /\ Front(m_send[p][i]) = Packet(m_send[p][i].msg)
         /\ Empty(Pop(m_send[p][i]))
<1>1. m_send[p][i] \in Entries /\ LiveEntry(m_send[p][i])
  BY InvLists, LenProperties, ElementOfSeq DEF AllLive
<1>2. Len(Packets[m_send[p][i].msg]) = 1
  BY <1>1, MessagesAssumption DEF Entries, Singles
<1>3. m_send[p][i].pos = 1
  BY <1>1, <1>2 DEF LiveEntry, Empty, Entries
<1>4. Empty(Pop(m_send[p][i]))
  BY <1>1, <1>2, <1>3, PopLast
<1>5. Front(m_send[p][i]) = Packet(m_send[p][i].msg)
  BY <1>3 DEF Front, Packet
<1> QED  BY <1>4, <1>5

\* Only single messages about the request of m are erased for m.
LEMMA ErasedForSingle ==
  ASSUME Inv, NEW m \in Singles, NEW p \in Priorities,
         NEW i \in Erasing(Popped(m_send[p], Packet(m)))
  PROVE  /\ i \in DOMAIN m_send[p]
         /\ m_send[p][i].msg \in Singles
         /\ Compare(Packet(m_send[p][i].msg), Packet(m))
<1>1. i \in DOMAIN m_send[p] /\ Empty(Popped(m_send[p], Packet(m))[i])
  BY DEF Erasing, Popped
<1>2. PICK e : e = m_send[p][i]
  OBVIOUS
<1>3. e \in Entries /\ LiveEntry(e)
  BY <1>1, <1>2, InvLists, LenProperties, ElementOfSeq DEF AllLive
<1>4. Compare(Front(e), Packet(m))
  BY <1>1, <1>2, <1>3 DEF Popped, LiveEntry
<1>5. e.msg \in Singles
  <2> SUFFICES ASSUME e.msg \in Stacks PROVE FALSE
    BY <1>3 DEF Entries, Singles
  <2>1. e.pos \in 1 .. Len(Packets[e.msg])
    BY <1>3, MessagesAssumption, LenProperties DEF LiveEntry, Empty, Entries
  <2> QED  BY <1>4, <2>1, CompareAssumption DEF Front
<1>6. Front(e) = Packet(e.msg)
  BY <1>1, <1>2, <1>5, SingleFront
<1> QED  BY <1>1, <1>2, <1>4, <1>5, <1>6

\* Whatever its loop erases first, sendMessage leaves no message about the
\* request of the submitted one.
LEMMA SubmissionEvicts ==
  ASSUME Inv, NEW m \in Singles, NEW n \in Singles,
         Compare(Packet(n), Packet(m)),
         NEW p \in Priorities, NEW k \in DOMAIN PopMatching(Packet(m))[p]
  PROVE  PopMatching(Packet(m))[p][k].msg # n
<1> SUFFICES ASSUME PopMatching(Packet(m))[p][k].msg = n
             PROVE  FALSE
  OBVIOUS
<1> DEFINE R(h) == Popped(m_send[h], Packet(m))
<1>1. PICK i \in DOMAIN m_send[p] : m_send[p][i].msg = n
  BY PopMatchingLessens DEF Lessens
<1>2. i \in Erasing(R(p))
  <2>1. Front(m_send[p][i]) = Packet(n) /\ Empty(Pop(m_send[p][i]))
    BY <1>1, SingleFront
  <2> QED  BY <1>1, <2>1 DEF Erasing, Popped
<1>3. ASSUME NEW h \in Priorities, NEW j \in Erasing(R(h))
      PROVE  h = p /\ j = i
  <2>1. /\ j \in DOMAIN m_send[h] /\ m_send[h][j].msg \in Singles
        /\ Compare(Packet(m_send[h][j].msg), Packet(m))
    BY <1>3, ErasedForSingle
  <2>2. Compare(Packet(m_send[h][j].msg), Packet(n))
    BY <2>1, CompareAssumption
  <2>3. InQueue(m_send[h][j].msg) /\ InQueue(n)
    BY <1>1, <2>1 DEF InQueue
  <2>4. m_send[h][j].msg = n
    BY <2>1, <2>2, <2>3 DEF Inv, OneRequestPending
  <2>5. h = p
    BY <1>1, <2>1, <2>4 DEF Inv, OnePlace
  <2> QED  BY <1>1, <2>1, <2>4, <2>5 DEF Inv, OnePlace
<1>4. PopMatching(Packet(m))[p] = Sweep(m_send[p], R(p))
  <2>1. \A h \in Priorities : h < p => h # p
    BY DEF Priorities, HIGHT, LOW
  <2>2. ~ \E h \in Priorities : h < p /\ Erasing(R(h)) # {}
    BY <1>3, <2>1
  <2> QED  BY <2>2 DEF PopMatching
<1>5. Refreshes(m_send[p], R(p))
  BY InvLists, PoppedRefreshes
<1>6. PICK r : r = R(p)
  OBVIOUS
<1>7. PICK s : s = Sweep(m_send[p], r)
  OBVIOUS
<1>8. k \in DOMAIN s /\ s[k].msg = n
  BY <1>4, <1>6, <1>7
<1>9. Updates(m_send[p], r) /\ \A j \in DOMAIN m_send[p] : r[j].msg = m_send[p][j].msg
  BY <1>5, <1>6 DEF Refreshes
<1>10. /\ Origin(r, k) \in DOMAIN m_send[p]
       /\ s[k] = r[Origin(r, k)] \/ s[k] = m_send[p][Origin(r, k)]
       /\ Min(Erasing(r)) \in Erasing(r)
       /\ Origin(r, k) # Min(Erasing(r))
  BY <1>2, <1>6, <1>7, <1>8, <1>9, SweepProperties
<1>11. m_send[p][Origin(r, k)].msg = n
  BY <1>8, <1>9, <1>10
<1>12. Origin(r, k) = i
  BY <1>1, <1>10, <1>11 DEF Inv, OnePlace
<1>13. Min(Erasing(r)) = i
  BY <1>3, <1>6, <1>10
<1> QED  BY <1>10, <1>12, <1>13

\* The lists into which a new message is put.
Kept(m) == IF m \in Stacks THEN m_send ELSE PopMatching(Packet(m))

LEMMA KeptProperties ==
  ASSUME Inv, NEW m \in Messages
  PROVE  /\ Kept(m) \in Lists
         /\ \A p \in Priorities : Lessens(m_send[p], Kept(m)[p])
<1>1. m_send \in Lists /\ \A p \in Priorities : Lessens(m_send[p], m_send[p])
  BY InvLists, LessensItself DEF Inv, TypeOK, Lists
<1> QED  BY <1>1, PopMatchingLessens DEF Kept

LEMMA NewEntry ==
  ASSUME NEW m \in Messages
  PROVE  New(m) \in Entries /\ New(m).msg = m /\ LiveEntry(New(m))
<1>1. Ticks[m] \in Int \ {0} /\ Len(Packets[m]) > 0
  BY MessagesAssumption
<1>2. Len(Packets[m]) \in Nat
  BY MessagesAssumption, LenProperties
<1> QED  BY <1>1, <1>2 DEF New, Entries, LiveEntry, Empty

LEMMA SubmissionPreservesInv ==
  ASSUME Inv, NEW m \in Messages, SendMessage(m), TypeOK'
  PROVE  Inv'
<1>1. /\ m \in fresh /\ fresh' = fresh \ {m}
      /\ m_send' = [Kept(m) EXCEPT ![Prio[m]] = Append(@, New(m))]
      /\ superseded' = IF m \in Stacks THEN superseded
                       ELSE superseded \cup
                              {n \in Singles \ fresh : Compare(Packet(n), Packet(m))}
  BY DEF SendMessage, Kept, Pushed
<1>2. PICK kept : kept = Kept(m)
  OBVIOUS
<1>3. /\ kept \in Lists
      /\ \A p \in Priorities : Lessens(m_send[p], kept[p])
  BY <1>2, KeptProperties
<1>4. Prio[m] \in Priorities
  BY MessagesAssumption
\* An entry after the submission is the new one or was kept.
<1>5. ASSUME NEW p \in Priorities
      PROVE  /\ DOMAIN kept[p] = 1 .. Len(kept[p]) /\ Len(kept[p]) \in Nat
             /\ p # Prio[m] => m_send'[p] = kept[p]
             /\ p = Prio[m] =>
                  /\ DOMAIN m_send'[p] = 1 .. Len(kept[p]) + 1
                  /\ \A k \in 1 .. Len(kept[p]) : m_send'[p][k] = kept[p][k]
                  /\ m_send'[p][Len(kept[p]) + 1] = New(m)
  <2>1. kept[p] \in Seq(Entries)
    BY <1>3 DEF Lists
  <2>2. New(m) \in Entries
    BY NewEntry
  <2>3. p = Prio[m] => m_send'[p] = Append(kept[p], New(m))
    BY <1>1, <1>2, <1>3 DEF Lists
  <2>4. p # Prio[m] => m_send'[p] = kept[p]
    BY <1>1, <1>2, <1>3 DEF Lists
  <2>5. DOMAIN kept[p] = 1 .. Len(kept[p]) /\ Len(kept[p]) \in Nat
    BY <2>1, LenProperties
  <2> QED  BY <2>1, <2>2, <2>3, <2>4, <2>5, AppendProperties
<1>6. ASSUME NEW p \in Priorities, NEW k \in DOMAIN m_send'[p]
      PROVE  \/ k \in DOMAIN kept[p] /\ m_send'[p][k] = kept[p][k]
             \/ p = Prio[m] /\ k = Len(kept[p]) + 1 /\ m_send'[p][k] = New(m)
  <2>1. CASE p # Prio[m]
    BY <1>5, <2>1
  <2>2. CASE p = Prio[m]
    <3>1. k \in 1 .. Len(kept[p]) \/ k = Len(kept[p]) + 1
      BY <1>5, <1>6, <2>2
    <3> QED  BY <1>5, <2>2, <3>1
  <2> QED  BY <2>1, <2>2
\* The kept messages were pending, so m is not one of them.
<1>7. ASSUME NEW p \in Priorities, NEW k \in DOMAIN kept[p]
      PROVE  /\ LiveEntry(kept[p][k])
             /\ kept[p][k].msg \notin fresh
             /\ kept[p][k].msg # m
             /\ Prio[kept[p][k].msg] = p
             /\ kept[p][k].msg \notin superseded
             /\ InQueue(kept[p][k].msg)
  <2>1. LiveEntry(kept[p][k])
    BY <1>3 DEF Lessens
  <2>2. PICK i \in DOMAIN m_send[p] : kept[p][k].msg = m_send[p][i].msg
    BY <1>3 DEF Lessens
  <2> QED  BY <1>1, <2>1, <2>2 DEF Inv, OnePlace, LatestWins, InQueue
<1>8. NoExhaustedEntry'
  BY <1>6, <1>7, NewEntry DEF NoExhaustedEntry, LiveEntry
<1>9. OnePlace'
  <2>1. ASSUME NEW p \in Priorities, NEW k \in DOMAIN m_send'[p]
        PROVE  Prio[m_send'[p][k].msg] = p /\ m_send'[p][k].msg \notin fresh'
    BY <1>1, <1>6, <1>7, NewEntry
  <2>2. ASSUME NEW p \in Priorities,
               NEW k \in DOMAIN m_send'[p], NEW l \in DOMAIN m_send'[p],
               m_send'[p][k].msg = m_send'[p][l].msg
        PROVE  k = l
    <3>1. Distinct(kept[p])
      BY <1>3, InvLists DEF Lessens
    <3> QED  BY <1>6, <1>7, <2>2, <3>1, NewEntry DEF Distinct
  <2> QED  BY <2>1, <2>2 DEF OnePlace
<1>10. ASSUME NEW n, InQueue(n)', n # m
       PROVE  \E p \in Priorities : \E k \in DOMAIN kept[p] : kept[p][k].msg = n
  <2>1. PICK p \in Priorities : \E k \in DOMAIN m_send'[p] : m_send'[p][k].msg = n
    BY <1>10 DEF InQueue
  <2>2. PICK k \in DOMAIN m_send'[p] : m_send'[p][k].msg = n
    BY <2>1
  <2> QED  BY <1>6, <1>10, <2>2, NewEntry
<1>11. ASSUME m \in Singles, NEW n \in Singles, InQueue(n)', n # m
       PROVE  ~Compare(Packet(n), Packet(m))
  <2>1. PICK p \in Priorities : \E k \in DOMAIN kept[p] : kept[p][k].msg = n
    BY <1>10, <1>11
  <2>2. kept = PopMatching(Packet(m))
    BY <1>2, <1>11 DEF Kept, Singles
  <2> QED  BY <1>11, <2>1, <2>2, SubmissionEvicts
<1>12. OneRequestPending'
  <2> SUFFICES ASSUME NEW l \in Singles, NEW n \in Singles,
                      InQueue(l)', InQueue(n)', Compare(Packet(l), Packet(n)), l # n
               PROVE  FALSE
    BY DEF OneRequestPending
  <2>1. CASE l # m /\ n # m
    <3>1. InQueue(l) /\ InQueue(n)
      BY <1>7, <1>10, <2>1
    <3> QED  BY <3>1 DEF Inv, OneRequestPending
  <2>2. CASE n = m
    BY <1>11, <2>2
  <2>3. CASE l = m
    <3>1. Compare(Packet(n), Packet(m))
      BY <2>3, CompareAssumption
    <3> QED  BY <1>11, <2>3, <3>1
  <2> QED  BY <2>1, <2>2, <2>3
<1>13. LatestWins'
  <2> SUFFICES ASSUME NEW p \in Priorities, NEW k \in DOMAIN m_send'[p]
               PROVE  m_send'[p][k].msg \notin superseded'
    BY DEF LatestWins
  <2>1. CASE m_send'[p][k].msg = m
    <3>1. m \notin superseded
      BY <1>1 DEF Inv
    <3> QED  BY <1>1, <2>1, <3>1
  <2>2. CASE m_send'[p][k].msg # m
    <3>1. k \in DOMAIN kept[p] /\ m_send'[p][k] = kept[p][k]
      BY <1>6, <2>2, NewEntry
    <3>2. m_send'[p][k].msg \notin superseded
      BY <1>7, <3>1
    <3>3. PICK n : n = m_send'[p][k].msg
      OBVIOUS
    <3>4. InQueue(n)'
      BY <3>3 DEF InQueue
    <3>5. m \in Singles /\ n \in Singles => ~Compare(Packet(n), Packet(m))
      BY <1>11, <2>2, <3>3, <3>4
    <3>6. n \notin superseded'
      BY <1>1, <3>2, <3>3, <3>5 DEF Singles
    <3> QED  BY <3>3, <3>6
  <2> QED  BY <2>1, <2>2
<1>14. (superseded \cap fresh = {})'
  BY <1>1 DEF Inv
<1> QED  BY <1>8, <1>9, <1>12, <1>13, <1>14 DEF Inv

-----------------------------------------------------------------------------
(* The theorems                                                             *)

LEMMA InitInv == Init => Inv
<1> SUFFICES ASSUME Init PROVE Inv
  OBVIOUS
<1>1. \A p \in Priorities : m_send[p] = << >> /\ DOMAIN m_send[p] = {}
  BY DEF Init
<1>2. \A m \in Messages : sent[m] \in [1 .. Len(Packets[m]) -> Nat]
  BY DEF Init
<1>3. m_send \in [Priorities -> Seq(Entries)]
  BY DEF Init
<1>4. TypeOK
  <2>1. turn \in Priorities
    BY DEF Init, Priorities, HIGHT, LOW
  <2>2. started \in BOOLEAN /\ fresh \subseteq Messages /\ DOMAIN sent = Messages
    BY DEF Init
  <2>3. superseded \subseteq Messages /\ overtaken \in [Priorities -> Nat]
    BY DEF Init
  <2> QED  BY <1>2, <1>3, <2>1, <2>2, <2>3 DEF TypeOK
<1>5. NoExhaustedEntry /\ OnePlace /\ LatestWins
  BY <1>1 DEF NoExhaustedEntry, OnePlace, LatestWins
<1>6. \A m : ~InQueue(m)
  BY <1>1 DEF InQueue
<1>7. OneRequestPending
  BY <1>6 DEF OneRequestPending
<1>8. superseded \cap fresh = {}
  BY DEF Init
<1> QED  BY <1>4, <1>5, <1>7, <1>8 DEF Inv

LEMMA TransmitType ==
  ASSUME Inv, Transmit
  PROVE  TypeOK'
<1>1. PICK i \in DOMAIN m_send[turn] :
        sent' = [sent EXCEPT ![m_send[turn][i].msg][m_send[turn][i].pos] =
                   IF Ticks[m_send[turn][i].msg] < 0 THEN 1 ELSE @ + 1]
  BY DEF Transmit
<1>2. turn \in Priorities
  BY DEF Inv, TypeOK
<1>3. PICK e : e = m_send[turn][i]
  OBVIOUS
<1>4. e \in Entries /\ LiveEntry(e)
  BY <1>1, <1>2, <1>3, InvLists, LenProperties, ElementOfSeq DEF AllLive
<1>5. e.msg \in Messages /\ e.pos \in 1 .. Len(Packets[e.msg])
  BY <1>4, MessagesAssumption, LenProperties DEF Entries, LiveEntry, Empty
<1>6. \A m \in Messages : sent[m] \in [1 .. Len(Packets[m]) -> Nat]
  BY DEF Inv, TypeOK
<1>7. sent[e.msg][e.pos] + 1 \in Nat
  BY <1>5, <1>6
<1>8. PICK n \in Nat : sent' = [sent EXCEPT ![e.msg][e.pos] = n]
  BY <1>1, <1>3, <1>7
<1>9. DOMAIN sent' = Messages /\ \A m \in Messages : sent'[m] \in [1 .. Len(Packets[m]) -> Nat]
  BY <1>5, <1>6, <1>8 DEF Inv, TypeOK
<1>10. overtaken' \in [Priorities -> Nat]
  <2>1. \A p \in Priorities : overtaken[p] \in Nat
    BY DEF Inv, TypeOK
  <2>2. \A p \in Priorities : overtaken'[p] \in {0, overtaken[p], overtaken[p] + 1}
    BY DEF Transmit
  <2>3. overtaken' = [p \in Priorities |-> overtaken'[p]]
    BY DEF Transmit
  <2> QED  BY <2>1, <2>2, <2>3
<1>11. turn' \in Priorities
  BY DEF Transmit, Resume, Priorities, HIGHT, LOW
<1>12. m_send' \in [Priorities -> Seq(Entries)]
  BY TransmitThins DEF Thins, Lists
<1> QED  BY <1>9, <1>10, <1>11, <1>12 DEF Inv, TypeOK, Transmit

LEMMA NothingDueType ==
  ASSUME Inv, NothingDue
  PROVE  TypeOK'
<1>1. turn' \in Priorities
  BY DEF Inv, TypeOK, NothingDue, Resume, Priorities, HIGHT, LOW
<1>2. overtaken' \in [Priorities -> Nat]
  BY DEF Inv, TypeOK, NothingDue
<1>3. m_send' \in [Priorities -> Seq(Entries)]
  BY NothingDueThins DEF Thins, Lists
<1> QED  BY <1>1, <1>2, <1>3 DEF Inv, TypeOK, NothingDue

LEMMA SubmissionType ==
  ASSUME Inv, NEW m \in Messages, SendMessage(m)
  PROVE  TypeOK'
<1>1. m_send' = [Kept(m) EXCEPT ![Prio[m]] = Append(@, New(m))]
  BY DEF SendMessage, Kept, Pushed
<1>2. Kept(m) \in Lists
  BY KeptProperties
<1>3. New(m) \in Entries /\ Prio[m] \in Priorities
  BY NewEntry, MessagesAssumption
<1>4. PICK kept : kept = Kept(m)
  OBVIOUS
<1>5. PICK e : e = New(m)
  OBVIOUS
<1>6. Append(kept[Prio[m]], e) \in Seq(Entries)
  BY <1>2, <1>3, <1>4, <1>5, AppendProperties DEF Lists
<1>7. m_send' \in [Priorities -> Seq(Entries)]
  BY <1>1, <1>2, <1>3, <1>4, <1>5, <1>6 DEF Lists
<1>8. superseded' \subseteq Messages
  BY DEF SendMessage, Inv, TypeOK, Singles
<1> QED  BY <1>7, <1>8 DEF Inv, TypeOK, SendMessage

LEMMA NextPreservesInv == Inv /\ [Next]_vars => Inv'
<1> SUFFICES ASSUME Inv, [Next]_vars PROVE Inv'
  OBVIOUS
<1>1. ASSUME NEW m \in Messages, SendMessage(m) PROVE Inv'
  BY <1>1, SubmissionType, SubmissionPreservesInv
<1>2. ASSUME NEW a, ProcessFromParent(a) PROVE Inv'
  <2>1. Thins
    BY <1>2, ReplyThins
  <2>2. TypeOK'
    BY <1>2, <2>1 DEF Thins, Lists, Inv, TypeOK, ProcessFromParent
  <2> QED  BY <1>2, <2>1, <2>2, ThinsPreservesInv DEF ProcessFromParent
<1>3. CASE StartMessaging
  BY <1>3 DEF StartMessaging, Inv, TypeOK, NoExhaustedEntry, OnePlace,
              OneRequestPending, InQueue, LatestWins
<1>4. CASE Transmit
  BY <1>4, TransmitThins, TransmitType, ThinsPreservesInv DEF Transmit
<1>5. CASE NothingDue
  BY <1>5, NothingDueThins, NothingDueType, ThinsPreservesInv DEF NothingDue
<1>6. ASSUME NEW p \in Priorities, NEW i \in DOMAIN m_send[p], Elapse(p, i)
      PROVE  Inv'
  <2>1. Thins
    BY <1>6, ElapseThins
  <2>2. TypeOK'
    BY <1>6, <2>1 DEF Thins, Lists, Inv, TypeOK, Elapse
  <2> QED  BY <1>6, <2>1, <2>2, ThinsPreservesInv DEF Elapse
<1>7. CASE UNCHANGED vars
  BY <1>7 DEF vars, Inv, TypeOK, NoExhaustedEntry, OnePlace, OneRequestPending,
              InQueue, LatestWins
<1> QED  BY <1>1, <1>2, <1>3, <1>4, <1>5, <1>6, <1>7 DEF Next

LEMMA InvIsInvariant == Spec => []Inv
BY InitInv, NextPreservesInv, PTL DEF Spec

\* Every variable keeps its type.
THEOREM TypeCorrect == Spec => []TypeOK
<1>1. Inv => TypeOK
  BY DEF Inv
<1> QED  BY <1>1, InvIsInvariant, PTL

\* The erase-and-break loops of UavProtocol leave no entry behind that has no
\* packet or no transmission left.
THEOREM NothingExhausted == Spec => []NoExhaustedEntry
<1>1. Inv => NoExhaustedEntry
  BY DEF Inv
<1> QED  BY <1>1, InvIsInvariant, PTL

\* A message object is in one place of one list, the one of its priority.
THEOREM EachInOnePlace == Spec => []OnePlace
<1>1. Inv => OnePlace
  BY DEF Inv
<1> QED  BY <1>1, InvIsInvariant, PTL

\* sendMessage, which stops at the first entry it erases, removes everything
\* the new message replaces: what a later submission is about is never queued.
THEOREM LatestAlwaysWins == Spec => []LatestWins
<1>1. Inv => LatestWins
  BY DEF Inv
<1> QED  BY <1>1, InvIsInvariant, PTL

-----------------------------------------------------------------------------
(* Priorities                                                               *)

\* A list that was overtaken once is the next the sender thread comes to.
OvertakenOnce ==
  \A p \in Priorities : overtaken[p] = 0 \/ (overtaken[p] = 1 /\ turn <= p)

LEMMA OvertakenStep ==
  ASSUME TypeOK, OvertakenOnce, [Next]_vars
  PROVE  OvertakenOnce'
<1>1. turn \in Priorities /\ \A p \in Priorities : overtaken[p] \in Nat
  BY DEF TypeOK
<1>2. CASE Transmit
  <2> SUFFICES ASSUME NEW p \in Priorities
               PROVE  overtaken'[p] = 0 \/ (overtaken'[p] = 1 /\ turn' <= p)
    BY DEF OvertakenOnce
  <2>1. turn' <= p
    BY <1>2 DEF Transmit, Resume, Priorities, HIGHT, LOW
  <2>2. overtaken'[p] \in {0, overtaken[p]} \/ (p < turn /\ overtaken'[p] = overtaken[p] + 1)
    BY <1>2 DEF Transmit
  <2>3. p < turn => overtaken[p] = 0
    BY <1>1 DEF OvertakenOnce, Priorities, HIGHT, LOW
  <2> QED  BY <2>1, <2>2, <2>3 DEF OvertakenOnce
<1>3. CASE NothingDue
  <2> SUFFICES ASSUME NEW p \in Priorities
               PROVE  overtaken'[p] = 0 \/ (overtaken'[p] = 1 /\ turn' <= p)
    BY DEF OvertakenOnce
  <2>1. overtaken'[p] = IF p = turn THEN 0 ELSE overtaken[p]
    BY <1>1, <1>3 DEF NothingDue, TypeOK
  <2> QED  BY <1>1, <1>3, <2>1 DEF OvertakenOnce, NothingDue, Resume, Priorities, HIGHT, LOW
<1>4. CASE UNCHANGED <<turn, overtaken>>
  BY <1>4 DEF OvertakenOnce
<1> QED
  BY <1>2, <1>3, <1>4 DEF Next, vars, SendMessage, ProcessFromParent,
                          StartMessaging, Elapse

\* The sender thread releases the mutex between two lists, so a message may
\* overtake one of a higher priority, but two never do.
THEOREM InversionIsBounded == Spec => []BoundedInversion
<1>1. Init => OvertakenOnce
  BY DEF Init, OvertakenOnce
<1>2. TypeOK /\ OvertakenOnce /\ [Next]_vars => OvertakenOnce'
  BY OvertakenStep
<1>3. OvertakenOnce => BoundedInversion
  BY DEF OvertakenOnce, BoundedInversion
<1> QED  BY <1>1, <1>2, <1>3, TypeCorrect, PTL DEF Spec

-----------------------------------------------------------------------------
(* Retransmissions                                                          *)

\* What the counter of an entry leaves of the transmissions of its message, of
\* which row counts those made of each packet.
Counted(e, row) ==
  Ticks[e.msg] > 0 =>
    /\ e.ticks \in 0 .. Ticks[e.msg]
    /\ e.first => e.ticks = Ticks[e.msg]
    /\ e.pos \in DOMAIN row => row[e.pos] + e.ticks <= Ticks[e.msg]
    /\ \A k \in DOMAIN row : k > e.pos => row[k] = 0

Rows(m) == [1 .. Len(Packets[m]) -> Nat]

RetryInv ==
  /\ RetryBound
  /\ \A p \in Priorities : \A i \in DOMAIN m_send[p] :
       Counted(m_send[p][i], sent[m_send[p][i].msg])
  /\ \A m \in fresh : \A k \in 1 .. Len(Packets[m]) : sent[m][k] = 0

LEMMA CountedPopped ==
  ASSUME NEW e \in Entries, NEW row \in Rows(e.msg), Counted(e, row)
  PROVE  Counted(Pop(e), row)
<1>1. Ticks[e.msg] \in Int /\ e.pos \in Nat /\ e.ticks \in Int
  BY MessagesAssumption DEF Entries
<1>2. PICK f : f = Pop(e)
  OBVIOUS
<1>3. f.msg = e.msg /\ f.pos = e.pos + 1 /\ f.ticks = e.ticks /\ f.first = e.first
  BY <1>2 DEF Pop, Entries
<1>4. \A k \in DOMAIN row : k \in Int
  BY DEF Rows
<1>5. Counted(f, row)
  BY <1>1, <1>3, <1>4 DEF Counted
<1> QED  BY <1>2, <1>5

LEMMA CountedExpired ==
  ASSUME NEW e \in Entries, NEW row \in Rows(e.msg), Counted(e, row)
  PROVE  Counted(Expire(e), row)
<1>1. Counted(Pop(e), row) /\ Pop(e) \in Entries /\ Pop(e).msg = e.msg
  BY CountedPopped, EntryOperations
<1>2. PICK f : f = Pop(e)
  OBVIOUS
<1>3. ASSUME ~(e.first \/ e.ticks # 0) PROVE Counted(Reset(f), row)
  <2>1. PICK g : g = Reset(f)
    OBVIOUS
  <2>2. g.msg = e.msg /\ g.pos = f.pos /\ g.ticks = Ticks[e.msg] /\ g.first
    BY <1>1, <1>2, <2>1 DEF Reset, Entries
  <2>3. f.pos = e.pos + 1 /\ e.pos \in Nat /\ Ticks[e.msg] \in Int
    BY <1>2, MessagesAssumption DEF Pop, Entries
  <2>4. \A k \in DOMAIN row : k \in Int
    BY DEF Rows
  <2>5. Counted(g, row)
    BY <2>2, <2>3, <2>4 DEF Counted
  <2> QED  BY <2>1, <2>5
<1> QED  BY <1>1, <1>2, <1>3 DEF Expire

\* A transmission takes one from the counter.
LEMMA CountedTouched ==
  ASSUME NEW e \in Entries, LiveEntry(e), NEW row \in Rows(e.msg), Counted(e, row),
         Ticks[e.msg] > 0
  PROVE  /\ e.pos \in DOMAIN row
         /\ row[e.pos] + 1 <= Ticks[e.msg]
         /\ Counted(Touch(e), [row EXCEPT ![e.pos] = @ + 1])
<1>1. /\ Ticks[e.msg] \in Int /\ e.pos \in Nat \ {0} /\ e.ticks \in Int
      /\ Len(Packets[e.msg]) \in Nat
  BY MessagesAssumption, LenProperties DEF Entries
<1>2. e.pos \in DOMAIN row /\ \A k \in DOMAIN row : k \in Int /\ row[k] \in Nat
  BY <1>1 DEF LiveEntry, Empty, Rows
<1>3. e.ticks > 0
  BY <1>1 DEF LiveEntry, Counted
<1>4. PICK f : f = Touch(e)
  OBVIOUS
<1>5. f.msg = e.msg /\ f.pos = e.pos /\ f.ticks = e.ticks - 1 /\ f.first = FALSE
  BY <1>3, <1>4 DEF Touch, Entries
<1>6. PICK new : new = [row EXCEPT ![e.pos] = @ + 1]
  OBVIOUS
<1>7. /\ DOMAIN new = DOMAIN row /\ new[e.pos] = row[e.pos] + 1
      /\ \A k \in DOMAIN row : k # e.pos => new[k] = row[k]
  BY <1>2, <1>6
<1>8. Counted(f, new)
  BY <1>1, <1>2, <1>3, <1>5, <1>7 DEF Counted
<1>9. row[e.pos] + 1 <= Ticks[e.msg]
  BY <1>1, <1>2, <1>3 DEF Counted
<1> QED  BY <1>2, <1>4, <1>6, <1>8, <1>9

\* The entries PopMatching leaves are entries or popped ones.
LEMMA PopMatchingEntries ==
  ASSUME Inv, NEW a, NEW p \in Priorities, NEW k \in DOMAIN PopMatching(a)[p]
  PROVE  \E i \in DOMAIN m_send[p] :
           PopMatching(a)[p][k] = m_send[p][i] \/ PopMatching(a)[p][k] = Pop(m_send[p][i])
<1>1. PICK q : q = m_send[p]
  OBVIOUS
<1>2. PICK r : r = Popped(q, a)
  OBVIOUS
<1>3. Updates(q, r)
  BY <1>1, <1>2, InvLists, PoppedRefreshes DEF Refreshes
<1>4. PopMatching(a)[p] = q \/ PopMatching(a)[p] = Sweep(q, r)
  BY <1>1, <1>2 DEF PopMatching
<1>5. \A i \in DOMAIN q : r[i] = q[i] \/ r[i] = Pop(q[i])
  BY <1>2 DEF Popped
<1>6. CASE PopMatching(a)[p] = Sweep(q, r)
  <2>1. /\ Origin(r, k) \in DOMAIN q
        /\ \/ Sweep(q, r)[k] = r[Origin(r, k)]
           \/ Sweep(q, r)[k] = q[Origin(r, k)]
    BY <1>3, <1>6, SweepProperties
  <2> QED  BY <1>1, <1>5, <1>6, <2>1
<1> QED  BY <1>1, <1>4, <1>6

LEMMA EntryAndRow ==
  ASSUME Inv, RetryInv, NEW p \in Priorities, NEW i \in DOMAIN m_send[p]
  PROVE  /\ m_send[p][i] \in Entries /\ LiveEntry(m_send[p][i])
         /\ sent[m_send[p][i].msg] \in Rows(m_send[p][i].msg)
         /\ Counted(m_send[p][i], sent[m_send[p][i].msg])
<1>1. m_send[p][i] \in Entries /\ LiveEntry(m_send[p][i])
  BY InvLists, LenProperties, ElementOfSeq DEF AllLive
<1> QED  BY <1>1 DEF Inv, TypeOK, RetryInv, Entries, Rows

LEMMA PopMatchingCounted ==
  ASSUME Inv, RetryInv, NEW a, NEW p \in Priorities, NEW k \in DOMAIN PopMatching(a)[p]
  PROVE  Counted(PopMatching(a)[p][k], sent[PopMatching(a)[p][k].msg])
<1>1. PICK i \in DOMAIN m_send[p] :
        PopMatching(a)[p][k] = m_send[p][i] \/ PopMatching(a)[p][k] = Pop(m_send[p][i])
  BY PopMatchingEntries
<1>2. /\ m_send[p][i] \in Entries
      /\ sent[m_send[p][i].msg] \in Rows(m_send[p][i].msg)
      /\ Counted(m_send[p][i], sent[m_send[p][i].msg])
  BY EntryAndRow
<1>3. Pop(m_send[p][i]).msg = m_send[p][i].msg
  BY <1>2, EntryOperations
<1> QED  BY <1>1, <1>2, <1>3, CountedPopped

LEMMA SubmissionCounted ==
  ASSUME Inv, RetryInv, NEW m \in Messages, SendMessage(m)
  PROVE  RetryInv'
<1>1. /\ m \in fresh /\ fresh' = fresh \ {m} /\ sent' = sent
      /\ m_send' = [Kept(m) EXCEPT ![Prio[m]] = Append(@, New(m))]
  BY DEF SendMessage, Kept, Pushed
<1>2. ASSUME NEW p \in Priorities, NEW k \in DOMAIN Kept(m)[p]
      PROVE  Counted(Kept(m)[p][k], sent[Kept(m)[p][k].msg])
  BY PopMatchingCounted, EntryAndRow DEF Kept
<1>3. Counted(New(m), sent[m])
  <2>1. PICK e : e = New(m)
    OBVIOUS
  <2>2. e.msg = m /\ e.pos = 1 /\ e.ticks = Ticks[m] /\ Ticks[m] \in Int
    BY <2>1, MessagesAssumption DEF New
  <2>3. DOMAIN sent[m] = 1 .. Len(Packets[m]) /\ \A k \in DOMAIN sent[m] : sent[m][k] = 0
    BY <1>1 DEF RetryInv, Inv, TypeOK
  <2>4. Counted(e, sent[m])
    BY <2>2, <2>3 DEF Counted
  <2> QED  BY <2>1, <2>4
<1>4. Kept(m) \in Lists /\ New(m) \in Entries /\ New(m).msg = m /\ Prio[m] \in Priorities
  BY KeptProperties, NewEntry, MessagesAssumption
<1>5. ASSUME NEW p \in Priorities, NEW k \in DOMAIN m_send'[p]
      PROVE  Counted(m_send'[p][k], sent[m_send'[p][k].msg])
  <2>1. PICK kept : kept = Kept(m)
    OBVIOUS
  <2>2. PICK e : e = New(m)
    OBVIOUS
  <2>3. kept[p] \in Seq(Entries) /\ DOMAIN kept[p] = 1 .. Len(kept[p]) /\ Len(kept[p]) \in Nat
    BY <1>4, <2>1, LenProperties DEF Lists
  <2>4. CASE p # Prio[m]
    <3>1. m_send'[p] = kept[p]
      BY <1>1, <1>4, <2>1, <2>4 DEF Lists
    <3> QED  BY <1>2, <1>5, <2>1, <3>1
  <2>5. CASE p = Prio[m]
    <3>1. m_send'[p] = Append(kept[p], e)
      BY <1>1, <1>4, <2>1, <2>2, <2>5 DEF Lists
    <3>2. /\ DOMAIN m_send'[p] = 1 .. Len(kept[p]) + 1
          /\ \A j \in 1 .. Len(kept[p]) : m_send'[p][j] = kept[p][j]
          /\ m_send'[p][Len(kept[p]) + 1] = e
      BY <1>4, <2>2, <2>3, <3>1, AppendProperties
    <3>3. k \in DOMAIN kept[p] \/ k = Len(kept[p]) + 1
      BY <1>5, <2>3, <3>2
    <3> QED  BY <1>2, <1>3, <1>4, <2>1, <2>2, <2>3, <3>2, <3>3
  <2> QED  BY <2>4, <2>5
<1> QED  BY <1>1, <1>5 DEF RetryInv, RetryBound

LEMMA TransmitCounted ==
  ASSUME Inv, RetryInv, Transmit
  PROVE  RetryInv'
<1>1. PICK i \in DOMAIN m_send[turn] :
        /\ Sendable(m_send[turn], i)
        /\ m_send' = [m_send EXCEPT ![turn] =
                        Sweep(m_send[turn],
                              Expired([m_send[turn] EXCEPT ![i] = Touch(@)]))]
        /\ sent' = [sent EXCEPT ![m_send[turn][i].msg][m_send[turn][i].pos] =
                      IF Ticks[m_send[turn][i].msg] < 0 THEN 1 ELSE @ + 1]
  BY DEF Transmit
<1>2. turn \in Priorities /\ m_send \in Lists
  BY DEF Inv, TypeOK, Lists
<1>3. PICK q : q = m_send[turn]
  OBVIOUS
<1>4. PICK e : e = q[i]
  OBVIOUS
<1>5. /\ e \in Entries /\ LiveEntry(e) /\ e.msg \in Messages
      /\ sent[e.msg] \in Rows(e.msg) /\ Counted(e, sent[e.msg])
  BY <1>1, <1>2, <1>3, <1>4, EntryAndRow DEF Entries
<1>6. PICK m \in Messages : m = e.msg
  BY <1>5
\* Only the row of the message that is sent changes ...
<1>7. /\ \A n \in Messages : n # m => sent'[n] = sent[n]
      /\ Ticks[m] > 0 => sent'[m] = [sent[m] EXCEPT ![e.pos] = @ + 1]
  <2>1. DOMAIN sent = Messages
    BY DEF Inv, TypeOK
  <2>2. sent' = [sent EXCEPT ![m] = [sent[m] EXCEPT ![e.pos] =
                                       IF Ticks[m] < 0 THEN 1 ELSE @ + 1]]
    BY <1>1, <1>3, <1>4, <1>6
  <2>3. Ticks[m] > 0 => ~(Ticks[m] < 0)
    BY MessagesAssumption
  <2> QED  BY <2>1, <2>2, <2>3
<1>8. Ticks[m] > 0 => /\ e.pos \in DOMAIN sent[m]
                      /\ sent[m][e.pos] + 1 <= Ticks[m]
                      /\ Counted(Touch(e), sent'[m])
  BY <1>5, <1>6, <1>7, CountedTouched
<1>9. Counted(Touch(e), sent'[m]) /\ Touch(e) \in Entries /\ Touch(e).msg = m
  <2>1. Touch(e) \in Entries /\ Touch(e).msg = m
    BY <1>5, <1>6, EntryOperations
  <2> QED  BY <1>8, <2>1 DEF Counted
<1>10. sent'[m] \in Rows(m)
  BY TransmitType, <1>6 DEF TypeOK, Rows
<1>11. RetryBound'
  <2> SUFFICES ASSUME NEW n \in Messages, NEW k \in 1 .. Len(Packets[n]), Ticks[n] > 0
               PROVE  sent'[n][k] <= Ticks[n]
    BY DEF RetryBound
  <2>1. sent[n][k] <= Ticks[n] /\ DOMAIN sent[n] = 1 .. Len(Packets[n])
    BY DEF RetryInv, RetryBound, Inv, TypeOK
  <2>2. CASE n = m
    BY <1>7, <1>8, <2>1, <2>2
  <2> QED  BY <1>7, <2>1, <2>2
<1>12. ASSUME NEW n \in fresh', NEW k \in 1 .. Len(Packets[n])
       PROVE  sent'[n][k] = 0
  <2>1. n \in fresh /\ n \in Messages
    BY DEF Transmit, Inv, TypeOK
  <2>2. n # m
    BY <1>1, <1>2, <1>3, <1>4, <1>6, <2>1 DEF Inv, OnePlace
  <2> QED  BY <1>7, <2>1, <2>2 DEF RetryInv
\* ... and what the sweep leaves of the list is counted with it.
<1>13. PICK t : t = [q EXCEPT ![i] = Touch(@)]
  OBVIOUS
<1>14. q \in Seq(Entries) /\ AllLive(q) /\ i \in 1 .. Len(q) /\ DOMAIN q = 1 .. Len(q)
  BY <1>1, <1>2, <1>3, InvLists, LenProperties
<1>15. t \in Seq(Entries) /\ Len(t) = Len(q) /\ DOMAIN t = 1 .. Len(q)
  BY <1>4, <1>9, <1>13, <1>14, ExceptSeq, LenProperties
<1>16. t[i] = Touch(e) /\ \A j \in DOMAIN q : j # i => t[j] = q[j]
  BY <1>4, <1>13, <1>14
<1>17. PICK r : r = Expired(t)
  OBVIOUS
<1>18. Updates(q, r)
  <2>1. \A j \in DOMAIN q : t[j] = q[j] \/ t[j] = Touch(q[j])
    BY <1>4, <1>16
  <2> QED  BY <1>14, <1>15, <1>17, <2>1, ExpiredRefreshes DEF Refreshes
<1>19. \A j \in DOMAIN q : r[j] = Expire(t[j])
  BY <1>14, <1>15, <1>17 DEF Expired
<1>20. ASSUME NEW j \in DOMAIN q, j # i
       PROVE  /\ q[j] \in Entries /\ q[j].msg # m /\ q[j].msg \in Messages
              /\ Expire(q[j]).msg = q[j].msg
              /\ Counted(q[j], sent'[q[j].msg]) /\ Counted(Expire(q[j]), sent'[q[j].msg])
  <2>1. /\ q[j] \in Entries /\ sent[q[j].msg] \in Rows(q[j].msg)
        /\ Counted(q[j], sent[q[j].msg])
    BY <1>2, <1>3, EntryAndRow
  <2>2. q[j].msg # m
    BY <1>1, <1>2, <1>3, <1>4, <1>6, <1>20 DEF Inv, OnePlace
  <2>3. q[j].msg \in Messages
    BY <2>1 DEF Entries
  <2>4. Expire(q[j]).msg = q[j].msg /\ Counted(Expire(q[j]), sent[q[j].msg])
    BY <2>1, EntryOperations, CountedExpired
  <2> QED  BY <1>7, <2>1, <2>2, <2>3, <2>4
<1>21. ASSUME NEW k \in DOMAIN Sweep(q, r)
       PROVE  Counted(Sweep(q, r)[k], sent'[Sweep(q, r)[k].msg])
  <2>1. PICK o : o = Origin(r, k)
    OBVIOUS
  <2>2. /\ o \in DOMAIN q
        /\ \/ Sweep(q, r)[k] = r[o]
           \/ /\ Sweep(q, r)[k] = q[o]
              /\ Erasing(r) # {} /\ Min(Erasing(r)) < o
        /\ Erasing(r) # {} => Min(Erasing(r)) \in Erasing(r)
    BY <1>18, <2>1, SweepProperties
  <2>3. CASE o # i
    <3>1. r[o] = Expire(q[o])
      BY <1>16, <1>19, <2>2, <2>3
    <3> QED  BY <1>20, <2>2, <2>3, <3>1
  <2>4. CASE o = i
    <3>1. r[o] = Expire(Touch(e))
      BY <1>16, <1>19, <2>2, <2>4
    <3>2. Counted(r[o], sent'[r[o].msg])
      BY <1>9, <1>10, <3>1, CountedExpired, EntryOperations
    <3>3. ~(Erasing(r) # {} /\ Min(Erasing(r)) < i)
      <4> SUFFICES ASSUME Erasing(r) # {}, Min(Erasing(r)) < i PROVE FALSE
        OBVIOUS
      <4>1. PICK d : d = Min(Erasing(r))
        OBVIOUS
      <4>2. d \in DOMAIN r /\ Empty(r[d]) /\ d < i
        BY <2>2, <4>1 DEF Erasing
      <4>3. d \in 1 .. i - 1 /\ d \in DOMAIN q
        BY <1>14, <1>18, <4>2, LenProperties DEF Updates
      <4>4. r[d] = Expire(q[d])
        BY <1>14, <1>16, <1>19, <4>3
      <4> QED  BY <1>1, <1>3, <4>2, <4>3, <4>4 DEF Sendable
    <3> QED  BY <2>2, <2>4, <3>2, <3>3
  <2> QED  BY <2>3, <2>4
<1>22. ASSUME NEW p \in Priorities, NEW k \in DOMAIN m_send'[p]
       PROVE  Counted(m_send'[p][k], sent'[m_send'[p][k].msg])
  <2>1. CASE p = turn
    <3>1. m_send'[p] = Sweep(q, r)
      BY <1>1, <1>2, <1>3, <1>13, <1>17, <2>1 DEF Lists
    <3> QED  BY <1>21, <1>22, <3>1
  <2>2. CASE p # turn
    <3>1. m_send'[p] = m_send[p]
      BY <1>1, <1>2, <2>2 DEF Lists
    <3>2. /\ m_send[p][k] \in Entries
          /\ Counted(m_send[p][k], sent[m_send[p][k].msg])
      BY <1>22, <3>1, EntryAndRow
    <3>3. m_send[p][k].msg # m
      BY <1>1, <1>2, <1>3, <1>4, <1>6, <1>22, <2>2, <3>1 DEF Inv, OnePlace
    <3>4. m_send[p][k].msg \in Messages
      BY <3>2 DEF Entries
    <3> QED  BY <1>7, <3>1, <3>2, <3>3, <3>4
  <2> QED  BY <2>1, <2>2
<1> QED  BY <1>11, <1>12, <1>22 DEF RetryInv

LEMMA NothingDueCounted ==
  ASSUME Inv, RetryInv, NothingDue
  PROVE  RetryInv'
<1>1. turn \in Priorities /\ m_send \in Lists
  BY DEF Inv, TypeOK, Lists
<1>2. PICK q : q = m_send[turn]
  OBVIOUS
<1>3. PICK r : r = Expired(q)
  OBVIOUS
<1>4. q \in Seq(Entries) /\ AllLive(q)
  BY <1>1, <1>2, InvLists
<1>5. Updates(q, r)
  BY <1>3, <1>4, ExpiredRefreshes DEF Refreshes
<1>6. ASSUME NEW k \in DOMAIN Sweep(q, r)
      PROVE  Counted(Sweep(q, r)[k], sent[Sweep(q, r)[k].msg])
  <2>1. PICK o \in DOMAIN q : Sweep(q, r)[k] = r[o] \/ Sweep(q, r)[k] = q[o]
    BY <1>5, SweepProperties
  <2>2. /\ q[o] \in Entries /\ sent[q[o].msg] \in Rows(q[o].msg)
        /\ Counted(q[o], sent[q[o].msg])
    BY <1>1, <1>2, EntryAndRow
  <2>3. r[o] = Expire(q[o])
    BY <1>3 DEF Expired
  <2>4. Counted(r[o], sent[r[o].msg])
    BY <2>2, <2>3, CountedExpired, EntryOperations
  <2> QED  BY <2>1, <2>2, <2>4
<1>7. ASSUME NEW p \in Priorities, NEW k \in DOMAIN m_send'[p]
      PROVE  Counted(m_send'[p][k], sent[m_send'[p][k].msg])
  <2>1. CASE p = turn
    <3>1. m_send'[p] = Sweep(q, r)
      BY <1>1, <1>2, <1>3, <2>1 DEF NothingDue, Lists
    <3> QED  BY <1>6, <1>7, <3>1
  <2>2. CASE p # turn
    <3>1. m_send'[p] = m_send[p]
      BY <1>1, <2>2 DEF NothingDue, Lists
    <3> QED  BY <1>7, <3>1 DEF RetryInv
  <2> QED  BY <2>1, <2>2
<1> QED  BY <1>7 DEF NothingDue, RetryInv, RetryBound

LEMMA ElapseCounted ==
  ASSUME Inv, RetryInv, NEW p \in Priorities, NEW i \in DOMAIN m_send[p], Elapse(p, i)
  PROVE  RetryInv'
<1>1. m_send \in Lists
  BY DEF Inv, TypeOK, Lists
<1>2. PICK e : e = m_send[p][i]
  OBVIOUS
<1>3. e \in Entries /\ Counted(e, sent[e.msg])
  BY <1>2, EntryAndRow
<1>4. PICK f : f = [e EXCEPT !.due = TRUE]
  OBVIOUS
<1>5. f.msg = e.msg /\ f.pos = e.pos /\ f.ticks = e.ticks /\ f.first = e.first
  BY <1>3, <1>4 DEF Entries
<1>6. Counted(f, sent[f.msg])
  BY <1>3, <1>5 DEF Counted
<1>7. m_send' = [m_send EXCEPT ![p] = [m_send[p] EXCEPT ![i] = f]]
  BY <1>2, <1>4 DEF Elapse
<1>8. ASSUME NEW h \in Priorities, NEW k \in DOMAIN m_send'[h]
      PROVE  Counted(m_send'[h][k], sent[m_send'[h][k].msg])
  <2>1. k \in DOMAIN m_send[h] /\ (m_send'[h][k] = m_send[h][k] \/ m_send'[h][k] = f)
    BY <1>1, <1>7 DEF Lists
  <2> QED  BY <1>6, <2>1 DEF RetryInv
<1> QED  BY <1>8 DEF Elapse, RetryInv, RetryBound

LEMMA RetryStep == Inv /\ RetryInv /\ [Next]_vars => RetryInv'
<1> SUFFICES ASSUME Inv, RetryInv, [Next]_vars PROVE RetryInv'
  OBVIOUS
<1>1. ASSUME NEW a, ProcessFromParent(a) PROVE RetryInv'
  BY <1>1, PopMatchingCounted DEF ProcessFromParent, RetryInv, RetryBound
<1>2. CASE UNCHANGED <<m_send, sent, fresh>>
  BY <1>2 DEF RetryInv, RetryBound
<1> QED
  BY <1>1, <1>2, SubmissionCounted, TransmitCounted, NothingDueCounted, ElapseCounted
     DEF Next, StartMessaging, vars

LEMMA InitRetryInv == ASSUME Init PROVE RetryInv
<1>1. \A m \in Messages : \A k \in 1 .. Len(Packets[m]) : sent[m][k] = 0
  BY DEF Init
<1>2. \A p \in Priorities : DOMAIN m_send[p] = {}
  BY DEF Init
<1> QED  BY <1>1, <1>2, MessagesAssumption DEF Init, RetryInv, RetryBound

LEMMA RetryInvHolds == Spec => []RetryInv
<1>1. Init => RetryInv
  BY InitRetryInv
<1> QED  BY <1>1, InvIsInvariant, RetryStep, PTL DEF Spec

\* No packet goes out more often than its message allows: answers that pop one
\* packet of a stack hand what is left of the counter to the next, never more.
THEOREM RetriesAreBounded == Spec => []RetryBound
<1>1. RetryInv => RetryBound
  BY DEF RetryInv
<1> QED  BY <1>1, RetryInvHolds, PTL

-----------------------------------------------------------------------------
(* Which messages leave the lists                                           *)

\* A sweep removes the first entry that is empty and no other.
LEMMA SweepKeeps ==
  ASSUME NEW q, NEW r, Refreshes(q, r), NEW i \in DOMAIN q,
         Erasing(r) # {} => i # Min(Erasing(r))
  PROVE  \E k \in DOMAIN Sweep(q, r) : Sweep(q, r)[k].msg = q[i].msg
<1>1. /\ q \in Seq(Entries) /\ r \in Seq(Entries) /\ Len(r) = Len(q)
      /\ Len(q) \in Nat /\ DOMAIN q = 1 .. Len(q) /\ DOMAIN r = 1 .. Len(q)
      /\ \A j \in DOMAIN q : r[j].msg = q[j].msg
  BY LenProperties DEF Refreshes, Updates
<1>2. CASE Erasing(r) = {}
  BY <1>1, <1>2 DEF Sweep
<1>3. CASE Erasing(r) # {}
  <2>1. PICK d : d = Min(Erasing(r))
    OBVIOUS
  <2>2. d \in 1 .. Len(q)
    <3>1. Erasing(r) \subseteq 1 .. Len(q)
      BY <1>1 DEF Erasing
    <3>2. Erasing(r) \subseteq Nat
      BY <3>1
    <3> QED  BY <1>3, <2>1, <3>1, <3>2, MinProperties
  <2>3. PICK c : c = Joined(q, r, d)
    OBVIOUS
  <2>4. Sweep(q, r) = c
    BY <1>3, <2>1, <2>3 DEF Sweep, Joined
  <2>5. DOMAIN c = 1 .. Len(q) - 1
    BY <1>1, <2>2, <2>3, JoinedDomain
  <2>6. \A k \in 1 .. Len(q) - 1 :
          (k < d => c[k] = r[k]) /\ (k >= d => c[k] = q[k + 1])
    BY <1>1, <2>2, <2>3, JoinedElements
  <2>7. CASE i < d
    <3>1. i \in 1 .. Len(q) - 1
      BY <1>1, <2>2, <2>7
    <3> QED  BY <1>1, <2>4, <2>5, <2>6, <2>7, <3>1
  <2>8. CASE i > d
    <3>1. PICK k : k = i - 1
      OBVIOUS
    <3>2. k \in 1 .. Len(q) - 1 /\ k >= d /\ k + 1 = i
      BY <1>1, <2>2, <2>8, <3>1
    <3>3. c[k] = q[i]
      BY <2>6, <3>2
    <3> QED  BY <2>4, <2>5, <3>2, <3>3
  <2>9. i < d \/ i > d
    BY <1>1, <1>3, <2>1, <2>2
  <2> QED  BY <2>7, <2>8, <2>9
<1> QED  BY <1>2, <1>3

\* The entry the loops over the lists erase for packet a.
Erased(a, p, i) ==
  /\ Erasing(Popped(m_send[p], a)) # {}
  /\ i = Min(Erasing(Popped(m_send[p], a)))
  /\ \A h \in Priorities : h < p => Erasing(Popped(m_send[h], a)) = {}

LEMMA ErasedOnce ==
  ASSUME NEW a, NEW p \in Priorities, NEW h \in Priorities, NEW i, NEW j,
         Erased(a, p, i), Erased(a, h, j)
  PROVE  p = h /\ i = j
<1>1. p < h \/ h < p \/ p = h
  BY DEF Priorities, HIGHT, LOW
<1> QED  BY <1>1 DEF Erased

LEMMA PopMatchingKeeps ==
  ASSUME Inv, NEW a, NEW p \in Priorities, NEW i \in DOMAIN m_send[p],
         ~Erased(a, p, i)
  PROVE  \E k \in DOMAIN PopMatching(a)[p] :
           PopMatching(a)[p][k].msg = m_send[p][i].msg
<1>1. PICK q : q = m_send[p]
  OBVIOUS
<1>2. PICK r : r = Popped(q, a)
  OBVIOUS
<1>3. Refreshes(q, r)
  BY <1>1, <1>2, InvLists, PoppedRefreshes
<1>4. CASE \E h \in Priorities : h < p /\ Erasing(Popped(m_send[h], a)) # {}
  BY <1>4 DEF PopMatching
<1>5. CASE ~ \E h \in Priorities : h < p /\ Erasing(Popped(m_send[h], a)) # {}
  <2>1. PopMatching(a)[p] = Sweep(q, r)
    BY <1>1, <1>2, <1>5 DEF PopMatching
  <2>2. Erasing(r) # {} => i # Min(Erasing(r))
    BY <1>1, <1>2, <1>5 DEF Erased
  <2> QED  BY <1>1, <1>3, <2>1, <2>2, SweepKeeps
<1> QED  BY <1>4, <1>5

LEMMA ThinsPending == ASSUME Thins PROVE Pending' \subseteq Pending
BY ThinsKeepsMessages DEF Pending

\* Looking for entries to delete changes no live entry.
LEMMA LiveUnexpired == ASSUME NEW e, LiveEntry(e) PROVE Expire(e) = e /\ ~Empty(e)
BY DEF LiveEntry, Expire

-----------------------------------------------------------------------------
(* The steps of the threads as steps of the Outbox                          *)

\* Two messages have the same subject if they are about the same request.
LEMMA SubjectsEqual ==
  ASSUME NEW m \in Messages, NEW n \in Messages, n # m
  PROVE  SubjectOf[n] = SubjectOf[m]
           <=> n \in Singles /\ m \in Singles /\ Compare(Packet(n), Packet(m))
<1>1. ASSUME SubjectOf[n] = SubjectOf[m]
      PROVE  n \in Singles /\ m \in Singles /\ Compare(Packet(n), Packet(m))
  <2>1. n \in SubjectOf[m]
    BY <1>1 DEF SubjectOf
  <2>2. n \in Singles /\ m \in Singles /\ Compare(Packet(m), Packet(n))
    BY <2>1 DEF SubjectOf
  <2> QED  BY <2>2, CompareAssumption
<1>2. ASSUME n \in Singles, m \in Singles, Compare(Packet(n), Packet(m))
      PROVE  SubjectOf[n] = SubjectOf[m]
  <2>1. Compare(Packet(m), Packet(n))
    BY <1>2, CompareAssumption
  <2>2. \A l \in Singles : Compare(Packet(n), Packet(l)) <=> Compare(Packet(m), Packet(l))
    BY <1>2, <2>1, CompareAssumption
  <2> QED  BY <1>2, <2>1, <2>2 DEF SubjectOf
<1> QED  BY <1>1, <1>2

LEMMA ReplyRefines ==
  ASSUME Inv, NEW a, ProcessFromParent(a)
  PROVE  (\E m \in Messages : AsOutbox!Settle(m)) \/ UNCHANGED AsOutbox!vars
<1>1. Pending' \subseteq Pending /\ m_send' = PopMatching(a) /\ UNCHANGED <<fresh, sent>>
  BY ReplyThins, ThinsPending DEF ProcessFromParent
<1>2. ASSUME NEW n, NEW p \in Priorities, NEW i \in DOMAIN m_send[p],
             m_send[p][i].msg = n, ~Erased(a, p, i)
      PROVE  InQueue(n)'
  <2>1. \E k \in DOMAIN m_send'[p] : m_send'[p][k].msg = n
    BY <1>1, <1>2, PopMatchingKeeps
  <2> QED  BY <2>1 DEF InQueue
<1>3. CASE \A p \in Priorities : \A i \in DOMAIN m_send[p] : ~Erased(a, p, i)
  <2>1. Pending \subseteq Pending'
    <3> SUFFICES ASSUME NEW n \in Messages, InQueue(n) PROVE InQueue(n)'
      BY DEF Pending
    <3> QED  BY <1>2, <1>3 DEF InQueue
  <2> QED  BY <1>1, <2>1 DEF AsOutbox!vars
<1>4. ASSUME NEW p \in Priorities, NEW i \in DOMAIN m_send[p], Erased(a, p, i)
      PROVE  (\E m \in Messages : AsOutbox!Settle(m)) \/ UNCHANGED AsOutbox!vars
  <2>1. PICK m : m = m_send[p][i].msg
    OBVIOUS
  <2>2. m \in Messages /\ InQueue(m)
    <3>1. m_send[p][i] \in Entries
      BY InvLists, LenProperties, ElementOfSeq
    <3> QED  BY <2>1, <3>1 DEF Entries, InQueue
  <2>3. Pending \ {m} \subseteq Pending'
    <3> SUFFICES ASSUME NEW n \in Messages, InQueue(n), n # m PROVE InQueue(n)'
      BY DEF Pending
    <3>1. PICK h \in Priorities : \E j \in DOMAIN m_send[h] : m_send[h][j].msg = n
      BY DEF InQueue
    <3>2. PICK j \in DOMAIN m_send[h] : m_send[h][j].msg = n
      BY <3>1
    <3>3. ~Erased(a, h, j)
      BY <1>4, <2>1, <3>2, ErasedOnce
    <3> QED  BY <1>2, <3>2, <3>3
  <2>4. Pending' = Pending \/ Pending' = Pending \ {m}
    BY <1>1, <2>3
  <2>5. m \in Pending
    BY <2>2 DEF Pending
  <2> QED  BY <1>1, <2>2, <2>4, <2>5 DEF AsOutbox!Settle, AsOutbox!vars
<1> QED  BY <1>3, <1>4

\* What is queued after a submission: the new message and what was kept.
LEMMA SubmissionQueue ==
  ASSUME Inv, NEW m \in Messages, SendMessage(m), NEW n
  PROVE  InQueue(n)' <=>
           \/ n = m
           \/ \E p \in Priorities : \E k \in DOMAIN Kept(m)[p] : Kept(m)[p][k].msg = n
<1>1. m_send' = [Kept(m) EXCEPT ![Prio[m]] = Append(@, New(m))]
  BY DEF SendMessage, Kept, Pushed
<1>2. PICK kept : kept = Kept(m)
  OBVIOUS
<1>3. PICK e : e = New(m)
  OBVIOUS
<1>4. kept \in Lists /\ e \in Entries /\ e.msg = m /\ Prio[m] \in Priorities
  BY <1>2, <1>3, KeptProperties, NewEntry, MessagesAssumption
<1>5. ASSUME NEW p \in Priorities
      PROVE  /\ DOMAIN kept[p] = 1 .. Len(kept[p]) /\ Len(kept[p]) \in Nat
             /\ p # Prio[m] => m_send'[p] = kept[p]
             /\ p = Prio[m] =>
                  /\ DOMAIN m_send'[p] = 1 .. Len(kept[p]) + 1
                  /\ \A k \in 1 .. Len(kept[p]) : m_send'[p][k] = kept[p][k]
                  /\ m_send'[p][Len(kept[p]) + 1] = e
  <2>1. kept[p] \in Seq(Entries)
    BY <1>4 DEF Lists
  <2>2. p = Prio[m] => m_send'[p] = Append(kept[p], e)
    BY <1>1, <1>2, <1>3, <1>4 DEF Lists
  <2>3. p # Prio[m] => m_send'[p] = kept[p]
    BY <1>1, <1>2, <1>4 DEF Lists
  <2>4. DOMAIN kept[p] = 1 .. Len(kept[p]) /\ Len(kept[p]) \in Nat
    BY <2>1, LenProperties
  <2> QED  BY <1>4, <2>1, <2>2, <2>3, <2>4, AppendProperties
<1>6. InQueue(m)'
  <2>1. Len(kept[Prio[m]]) + 1 \in DOMAIN m_send'[Prio[m]]
    BY <1>4, <1>5
  <2> QED  BY <1>4, <1>5, <2>1 DEF InQueue
<1>7. ASSUME NEW p \in Priorities, NEW k \in DOMAIN kept[p]
      PROVE  k \in DOMAIN m_send'[p] /\ m_send'[p][k] = kept[p][k]
  BY <1>5, <1>7
<1>8. ASSUME NEW p \in Priorities, NEW k \in DOMAIN m_send'[p]
      PROVE  \/ m_send'[p][k].msg = m
             \/ k \in DOMAIN kept[p] /\ m_send'[p][k] = kept[p][k]
  <2>1. CASE p # Prio[m]
    BY <1>5, <1>8, <2>1
  <2>2. CASE p = Prio[m]
    <3>1. k \in 1 .. Len(kept[p]) \/ k = Len(kept[p]) + 1
      BY <1>5, <1>8, <2>2
    <3> QED  BY <1>4, <1>5, <2>2, <3>1
  <2> QED  BY <2>1, <2>2
<1> QED  BY <1>2, <1>6, <1>7, <1>8 DEF InQueue

LEMMA SubmissionRefines ==
  ASSUME Inv, NEW m \in Messages, SendMessage(m)
  PROVE  AsOutbox!Submit(m)
<1> DEFINE IsKept(n) == \E p \in Priorities : \E k \in DOMAIN Kept(m)[p] : Kept(m)[p][k].msg = n
<1>1. m \in fresh /\ fresh' = fresh \ {m} /\ UNCHANGED sent
  BY DEF SendMessage
<1>2. ASSUME NEW n, IsKept(n)
      PROVE  InQueue(n) /\ n # m
  <2>1. PICK p \in Priorities : \E k \in DOMAIN Kept(m)[p] : Kept(m)[p][k].msg = n
    BY <1>2
  <2>2. PICK i \in DOMAIN m_send[p] : m_send[p][i].msg = n
    BY <2>1, KeptProperties DEF Lessens
  <2> QED  BY <1>1, <2>2 DEF Inv, OnePlace, InQueue
<1>3. ASSUME NEW n \in Messages, n # m, InQueue(n), SubjectOf[n] # SubjectOf[m]
      PROVE  IsKept(n)
  <2>1. PICK p \in Priorities : \E i \in DOMAIN m_send[p] : m_send[p][i].msg = n
    BY <1>3 DEF InQueue
  <2>2. PICK i \in DOMAIN m_send[p] : m_send[p][i].msg = n
    BY <2>1
  <2>3. CASE m \in Stacks
    BY <2>2, <2>3 DEF Kept
  <2>4. CASE m \notin Stacks
    <3>1. m \in Singles /\ Kept(m) = PopMatching(Packet(m))
      BY <2>4 DEF Singles, Kept
    <3>2. ~Erased(Packet(m), p, i)
      <4> SUFFICES ASSUME Erased(Packet(m), p, i) PROVE FALSE
        OBVIOUS
      <4>1. DOMAIN Popped(m_send[p], Packet(m)) \subseteq Nat
        BY InvLists, LenProperties DEF Popped
      <4>2. i \in Erasing(Popped(m_send[p], Packet(m)))
        BY <4>1, MinProperties DEF Erased, Erasing
      <4>3. n \in Singles /\ Compare(Packet(n), Packet(m))
        BY <2>2, <3>1, <4>2, ErasedForSingle
      <4> QED  BY <1>3, <3>1, <4>3, SubjectsEqual
    <3> QED  BY <2>2, <3>1, <3>2, PopMatchingKeeps
  <2> QED  BY <2>3, <2>4
<1>4. ASSUME NEW n \in Messages, IsKept(n)
      PROVE  SubjectOf[n] # SubjectOf[m]
  <2> SUFFICES ASSUME SubjectOf[n] = SubjectOf[m] PROVE FALSE
    OBVIOUS
  <2>1. n \in Singles /\ m \in Singles /\ Compare(Packet(n), Packet(m))
    BY <1>2, <1>4, SubjectsEqual
  <2>2. Kept(m) = PopMatching(Packet(m))
    BY <2>1 DEF Kept, Singles
  <2> QED  BY <1>4, <2>1, <2>2, SubmissionEvicts
<1>5. \A n \in Messages : InQueue(n)' <=> n = m \/ IsKept(n)
  BY SubmissionQueue
<1>6. ~InQueue(m)
  BY <1>1 DEF Inv, OnePlace, InQueue
<1> HIDE DEF IsKept
<1>7. Pending' = {n \in Pending : SubjectOf[n] # SubjectOf[m]} \cup {m}
  BY <1>2, <1>3, <1>4, <1>5, <1>6 DEF Pending
<1> QED  BY <1>1, <1>7 DEF AsOutbox!Submit

\* The history counts one transmission of a packet that is repeated for ever.
CountedOnce ==
  \A m \in Messages : \A k \in 1 .. Len(Packets[m]) :
    Ticks[m] < 0 => sent[m][k] <= 1

LEMMA TransmitRefines ==
  ASSUME Inv, RetryInv, CountedOnce, Transmit
  PROVE  /\ \E m \in Messages : AsOutbox!Transmit(m)
         /\ CountedOnce'
<1>1. PICK i \in DOMAIN m_send[turn] :
        /\ m_send' = [m_send EXCEPT ![turn] =
                        Sweep(m_send[turn],
                              Expired([m_send[turn] EXCEPT ![i] = Touch(@)]))]
        /\ sent' = [sent EXCEPT ![m_send[turn][i].msg][m_send[turn][i].pos] =
                      IF Ticks[m_send[turn][i].msg] < 0 THEN 1 ELSE @ + 1]
  BY DEF Transmit
<1>2. turn \in Priorities /\ m_send \in Lists
  BY DEF Inv, TypeOK, Lists
<1>3. PICK q : q = m_send[turn]
  OBVIOUS
<1>4. PICK e : e = q[i]
  OBVIOUS
<1>5. /\ e \in Entries /\ LiveEntry(e)
      /\ sent[e.msg] \in Rows(e.msg) /\ Counted(e, sent[e.msg])
  BY <1>1, <1>2, <1>3, <1>4, EntryAndRow
<1>6. PICK m \in Messages : m = e.msg
  BY <1>5 DEF Entries
<1>7. PICK k : k = e.pos
  OBVIOUS
<1>8. /\ k \in 1 .. Len(Packets[m]) /\ Ticks[m] \in Int \ {0}
      /\ sent[m][k] \in Nat /\ DOMAIN sent = Messages
      /\ \A l \in Messages : DOMAIN sent[l] = 1 .. Len(Packets[l])
  <2>1. Len(Packets[m]) \in Nat /\ Ticks[m] \in Int \ {0}
    BY MessagesAssumption, LenProperties
  <2>2. k \in 1 .. Len(Packets[m])
    BY <1>5, <1>6, <1>7, <2>1 DEF LiveEntry, Empty, Entries
  <2> QED  BY <2>1, <2>2 DEF Inv, TypeOK
\* The count of the packet stays within the limit ...
<1>9. PICK n : n = IF Ticks[m] < 0 THEN 1 ELSE sent[m][k] + 1
  OBVIOUS
<1>10. sent' = [sent EXCEPT ![m][k] = n]
  BY <1>1, <1>3, <1>4, <1>6, <1>7, <1>9
<1>11. n \in sent[m][k] .. (IF Ticks[m] < 0 THEN 1 ELSE Ticks[m])
  <2>1. Ticks[m] < 0 => sent[m][k] <= 1
    BY <1>8 DEF CountedOnce
  <2>2. Ticks[m] > 0 => sent[m][k] + 1 <= Ticks[m]
    BY <1>5, <1>6, <1>7, CountedTouched
  <2> QED  BY <1>8, <1>9, <2>1, <2>2
<1>12. CountedOnce'
  <2> SUFFICES ASSUME NEW l \in Messages, NEW j \in 1 .. Len(Packets[l]), Ticks[l] < 0
               PROVE  sent'[l][j] <= 1
    BY DEF CountedOnce
  <2>1. sent[l][j] <= 1
    BY DEF CountedOnce
  <2>2. sent'[l][j] = sent[l][j] \/ (l = m /\ sent'[l][j] = n)
    BY <1>8, <1>10
  <2> QED  BY <1>9, <2>1, <2>2
\* ... and only the message that was sent can leave the list.
<1>13. PICK t : t = [q EXCEPT ![i] = Touch(@)]
  OBVIOUS
<1>14. q \in Seq(Entries) /\ AllLive(q) /\ i \in 1 .. Len(q) /\ DOMAIN q = 1 .. Len(q)
  BY <1>1, <1>2, <1>3, InvLists, LenProperties
<1>15. t \in Seq(Entries) /\ Len(t) = Len(q) /\ DOMAIN t = 1 .. Len(q)
  BY <1>4, <1>5, <1>13, <1>14, EntryOperations, ExceptSeq, LenProperties
<1>16. t[i] = Touch(e) /\ \A j \in DOMAIN q : j # i => t[j] = q[j]
  BY <1>4, <1>13, <1>14
<1>17. PICK r : r = Expired(t)
  OBVIOUS
<1>18. Refreshes(q, r)
  <2>1. \A j \in DOMAIN q : t[j] = q[j] \/ t[j] = Touch(q[j])
    BY <1>4, <1>16
  <2> QED  BY <1>14, <1>15, <1>17, <2>1, ExpiredRefreshes
<1>19. Erasing(r) \subseteq {i}
  <2> SUFFICES ASSUME NEW j \in DOMAIN q, j # i PROVE ~Empty(r[j])
    BY <1>15, <1>14, <1>17 DEF Erasing, Expired
  <2>1. r[j] = Expire(q[j])
    BY <1>14, <1>15, <1>16, <1>17 DEF Expired
  <2> QED  BY <1>14, <2>1, LiveUnexpired DEF AllLive
<1>20. m_send' = [m_send EXCEPT ![turn] = Sweep(q, r)]
  BY <1>1, <1>3, <1>13, <1>17
<1>21. Pending \ {m} \subseteq Pending'
  <2> SUFFICES ASSUME NEW l \in Messages, InQueue(l), l # m PROVE InQueue(l)'
    BY DEF Pending
  <2>1. PICK p \in Priorities : \E j \in DOMAIN m_send[p] : m_send[p][j].msg = l
    BY DEF InQueue
  <2>2. PICK j \in DOMAIN m_send[p] : m_send[p][j].msg = l
    BY <2>1
  <2>3. CASE p # turn
    BY <1>2, <1>20, <2>2, <2>3 DEF Lists, InQueue
  <2>4. CASE p = turn
    <3>1. j \in DOMAIN q /\ q[j].msg = l /\ j # i
      BY <1>3, <1>4, <1>6, <2>2, <2>4
    <3>2. Erasing(r) # {} => j # Min(Erasing(r))
      <4>1. Erasing(r) # {} => Min(Erasing(r)) \in Erasing(r)
        <5>1. Erasing(r) \subseteq Nat
          BY <1>14, <1>19
        <5> QED  BY <5>1, MinProperties
      <4> QED  BY <1>19, <3>1, <4>1
    <3>3. \E c \in DOMAIN Sweep(q, r) : Sweep(q, r)[c].msg = l
      BY <1>18, <3>1, <3>2, SweepKeeps
    <3>4. m_send'[p] = Sweep(q, r)
      BY <1>2, <1>20, <2>4 DEF Lists
    <3> QED  BY <3>3, <3>4 DEF InQueue
  <2> QED  BY <2>3, <2>4
<1>22. m \in Pending /\ (Pending' = Pending \/ Pending' = Pending \ {m})
  <2>1. Pending' \subseteq Pending
    BY TransmitThins, ThinsPending
  <2>2. InQueue(m)
    BY <1>1, <1>2, <1>3, <1>4, <1>6 DEF InQueue
  <2> QED  BY <1>21, <2>1, <2>2 DEF Pending
<1>23. UNCHANGED fresh
  BY DEF Transmit
<1>24. AsOutbox!Transmit(m)
  BY <1>8, <1>10, <1>11, <1>22, <1>23 DEF AsOutbox!Transmit
<1> QED  BY <1>12, <1>24

LEMMA NothingDueRefines ==
  ASSUME Inv, NothingDue
  PROVE  UNCHANGED AsOutbox!vars
<1>1. turn \in Priorities /\ m_send \in Lists
  BY DEF Inv, TypeOK, Lists
<1>2. PICK q : q = m_send[turn]
  OBVIOUS
<1>3. PICK r : r = Expired(q)
  OBVIOUS
<1>4. q \in Seq(Entries) /\ AllLive(q)
  BY <1>1, <1>2, InvLists
<1>5. Refreshes(q, r)
  BY <1>3, <1>4, ExpiredRefreshes
<1>6. Erasing(r) = {}
  <2> SUFFICES ASSUME NEW j \in DOMAIN q PROVE ~Empty(r[j])
    BY <1>3 DEF Erasing, Expired
  <2> QED  BY <1>3, <1>4, LiveUnexpired DEF AllLive, Expired
<1>7. m_send' = [m_send EXCEPT ![turn] = Sweep(q, r)]
  BY <1>2, <1>3 DEF NothingDue
<1>8. Pending \subseteq Pending'
  <2> SUFFICES ASSUME NEW l \in Messages, InQueue(l) PROVE InQueue(l)'
    BY DEF Pending
  <2>1. PICK p \in Priorities : \E j \in DOMAIN m_send[p] : m_send[p][j].msg = l
    BY DEF InQueue
  <2>2. CASE p # turn
    BY <1>1, <1>7, <2>1, <2>2 DEF Lists, InQueue
  <2>3. CASE p = turn
    <3>1. \E c \in DOMAIN Sweep(q, r) : Sweep(q, r)[c].msg = l
      BY <1>2, <1>5, <1>6, <2>1, <2>3, SweepKeeps
    <3>2. m_send'[p] = Sweep(q, r)
      BY <1>1, <1>7, <2>3 DEF Lists
    <3> QED  BY <3>1, <3>2 DEF InQueue
  <2> QED  BY <2>2, <2>3
<1>9. Pending' = Pending
  BY <1>8, NothingDueThins, ThinsPending
<1> QED  BY <1>9 DEF NothingDue, AsOutbox!vars

LEMMA ElapseRefines ==
  ASSUME Inv, NEW p \in Priorities, NEW i \in DOMAIN m_send[p], Elapse(p, i)
  PROVE  UNCHANGED AsOutbox!vars
<1>1. m_send \in Lists
  BY DEF Inv, TypeOK, Lists
<1>2. m_send[p][i] \in Entries
  BY InvLists, LenProperties, ElementOfSeq
<1>3. PICK f : f = [m_send[p][i] EXCEPT !.due = TRUE]
  OBVIOUS
<1>4. f.msg = m_send[p][i].msg
  BY <1>2, <1>3 DEF Entries
<1>5. m_send' = [m_send EXCEPT ![p] = [m_send[p] EXCEPT ![i] = f]]
  BY <1>3 DEF Elapse
<1>6. ASSUME NEW h \in Priorities, NEW j \in DOMAIN m_send[h]
      PROVE  j \in DOMAIN m_send'[h] /\ m_send'[h][j].msg = m_send[h][j].msg
  BY <1>1, <1>4, <1>5 DEF Lists
<1>7. Pending \subseteq Pending'
  BY <1>6 DEF Pending, InQueue
<1>8. Pending' = Pending
  BY <1>7, ElapseThins, ThinsPending
<1> QED  BY <1>8 DEF Elapse, AsOutbox!vars

LEMMA StepRefines ==
  ASSUME Inv, RetryInv, CountedOnce, [Next]_vars
  PROVE  [AsOutbox!Next]_AsOutbox!vars /\ CountedOnce'
<1>1. ASSUME NEW m \in Messages, SendMessage(m)
      PROVE  AsOutbox!Next /\ CountedOnce'
  BY <1>1, SubmissionRefines DEF AsOutbox!Next, SendMessage, CountedOnce
<1>2. ASSUME NEW a, ProcessFromParent(a)
      PROVE  [AsOutbox!Next]_AsOutbox!vars /\ CountedOnce'
  BY <1>2, ReplyRefines DEF AsOutbox!Next, ProcessFromParent, CountedOnce
<1>3. CASE Transmit
  BY <1>3, TransmitRefines DEF AsOutbox!Next
<1>4. CASE NothingDue
  BY <1>4, NothingDueRefines DEF NothingDue, CountedOnce
<1>5. ASSUME NEW p \in Priorities, NEW i \in DOMAIN m_send[p], Elapse(p, i)
      PROVE  UNCHANGED AsOutbox!vars /\ CountedOnce'
  BY <1>5, ElapseRefines DEF Elapse, CountedOnce
<1>6. CASE UNCHANGED <<m_send, fresh, sent>>
  BY <1>6 DEF AsOutbox!vars, Pending, InQueue, CountedOnce
<1> QED
  BY <1>1, <1>2, <1>3, <1>4, <1>5, <1>6 DEF Next, StartMessaging, vars

LEMMA InitRefines == ASSUME Init PROVE AsOutbox!Init /\ CountedOnce
<1>1. Pending = {}
  BY DEF Init, Pending, InQueue
<1>2. fresh = Messages
  BY DEF Init
<1>3. sent = [m \in Messages |-> [k \in 1 .. Len(Packets[m]) |-> 0]]
  BY DEF Init
<1>4. CountedOnce
  BY DEF Init, CountedOnce
<1> QED  BY <1>1, <1>2, <1>3, <1>4 DEF AsOutbox!Init

\* The lists, their erase-and-break scans, the priorities and the sender thread
\* do what an Outbox does: a submission takes the place of the message with its
\* subject and of no other, an answer settles at most one message, and only a
\* pending message is transmitted, within its limit.
THEOREM QueueIsAnOutbox == Spec => ImplementsOutbox
<1>1. Init => AsOutbox!Init /\ CountedOnce
  BY InitRefines
<1>2. /\ Inv /\ RetryInv /\ CountedOnce /\ [Next]_vars
      => [AsOutbox!Next]_AsOutbox!vars /\ CountedOnce'
  BY StepRefines
<1> QED
  BY <1>1, <1>2, InvIsInvariant, RetryInvHolds, PTL
     DEF Spec, ImplementsOutbox, AsOutbox!Spec
\* What is settled stays settled: a message that was submitted and has left the
\* lists, because it was answered, replaced or given up, never comes back to one
\* of them and none of its packets is transmitted again, in whatever order the
\* callers, the connection's thread and the sender thread take the mutex.
THEOREM SettledStaysSettled ==
  Spec => [][\A m \in Messages \ fresh :
               ~InQueue(m) => ~InQueue(m)' /\ sent'[m] = sent[m]]_vars
<1>1. ASSUME Inv, [AsOutbox!Next]_AsOutbox!vars, NEW m \in Messages \ fresh, ~InQueue(m)
      PROVE  ~InQueue(m)' /\ sent'[m] = sent[m]
  <2>1. m \in Messages /\ m \notin fresh /\ m \notin Pending
    BY <1>1 DEF Pending
  <2>2. ~InQueue(m)' <=> m \notin Pending'
    BY <2>1 DEF Pending, InQueue
  <2>3. DOMAIN sent = Messages
    BY <1>1 DEF Inv, TypeOK
  <2>4. ASSUME NEW n \in Messages, AsOutbox!Submit(n)
        PROVE  m \notin Pending' /\ sent'[m] = sent[m]
    BY <2>1, <2>4 DEF AsOutbox!Submit
  <2>5. ASSUME NEW n \in Messages, AsOutbox!Transmit(n)
        PROVE  m \notin Pending' /\ sent'[m] = sent[m]
    <3>1. n \in Pending /\ (Pending' = Pending \/ Pending' = Pending \ {n})
      BY <2>5 DEF AsOutbox!Transmit
    <3>2. n # m /\ m \notin Pending'
      BY <2>1, <3>1
    <3>3. PICK k, c : sent' = [sent EXCEPT ![n][k] = c]
      BY <2>5 DEF AsOutbox!Transmit
    <3> QED  BY <2>1, <2>3, <3>2, <3>3
  <2>6. ASSUME NEW n \in Messages, AsOutbox!Settle(n)
        PROVE  m \notin Pending' /\ sent'[m] = sent[m]
    BY <2>1, <2>6 DEF AsOutbox!Settle
  <2>7. CASE UNCHANGED AsOutbox!vars
    BY <2>1, <2>2, <2>7 DEF AsOutbox!vars
  <2> QED  BY <1>1, <2>2, <2>4, <2>5, <2>6, <2>7 DEF AsOutbox!Next
<1>2. Inv /\ RetryInv /\ CountedOnce /\ [Next]_vars
        => CountedOnce' /\ [AsOutbox!Next]_AsOutbox!vars
  BY StepRefines
<1>3. Inv /\ [AsOutbox!Next]_AsOutbox!vars
        => [\A m \in Messages \ fresh :
              ~InQueue(m) => ~InQueue(m)' /\ sent'[m] = sent[m]]_vars
  BY <1>1
<1>4. Init => CountedOnce
  BY InitRefines
<1> QED
  BY <1>2, <1>3, <1>4, InvIsInvariant, RetryInvHolds, PTL DEF Spec
-----------------------------------------------------------------------------
(* The queue over its connection                                            *)

\* Every step of CommandLink is one of the queue or leaves its lists alone:
\* what goes out in the meantime and what the vehicle makes of it are seen by
\* the queue as packets it may hear.
LEMMA LinkStep ==
  ASSUME [LinkNext]_allVars
  PROVE  \/ [Next]_vars
         \/ UNCHANGED <<m_send, turn, started, fresh, sent, superseded, overtaken>>
<1>1. ASSUME NEW m \in Messages, TimelyElapse(m)
      PROVE  Next
  BY <1>1 DEF TimelyElapse, Next
<1>2. QueueStep => Next
  BY <1>1 DEF QueueStep, Submit, HandOver, Next
<1>3. GoOut => UNCHANGED <<m_send, turn, started, fresh, sent, superseded, overtaken>>
  BY DEF GoOut
<1> QED  BY <1>2, <1>3 DEF LinkNext, PeerChanges, allVars, vars

\* What the queue keeps while it is left alone.
LEMMA LeftAlone ==
  ASSUME UNCHANGED <<m_send, turn, started, fresh, sent, superseded, overtaken>>
  PROVE  /\ Inv => Inv'
         /\ RetryInv => RetryInv'
         /\ CountedOnce => CountedOnce'
         /\ UNCHANGED AsOutbox!vars
<1>1. Inv => Inv'
  BY DEF Inv, TypeOK, NoExhaustedEntry, OnePlace, OneRequestPending, InQueue, LatestWins
<1>2. RetryInv => RetryInv'
  BY DEF RetryInv, RetryBound
<1>3. CountedOnce => CountedOnce'
  BY DEF CountedOnce
<1>4. UNCHANGED AsOutbox!vars
  BY DEF AsOutbox!vars, Pending, InQueue
<1> QED  BY <1>1, <1>2, <1>3, <1>4

LEMMA LinkPreservesQueue ==
  ASSUME Inv, RetryInv, CountedOnce, [LinkNext]_allVars
  PROVE  Inv' /\ RetryInv' /\ CountedOnce' /\ [AsOutbox!Next]_AsOutbox!vars
<1>1. CASE [Next]_vars
  BY <1>1, NextPreservesInv, RetryStep, StepRefines
<1>2. CASE UNCHANGED <<m_send, turn, started, fresh, sent, superseded, overtaken>>
  BY <1>2, LeftAlone
<1> QED  BY <1>1, <1>2, LinkStep
LEMMA LinkKeepsQueue == LinkSpec => [](Inv /\ RetryInv /\ CountedOnce)
<1>1. LinkInit => Inv /\ RetryInv /\ CountedOnce
  BY InitInv, InitRetryInv, InitRefines DEF LinkInit
<1>2. Inv /\ RetryInv /\ CountedOnce /\ [LinkNext]_allVars
        => (Inv /\ RetryInv /\ CountedOnce)'
  BY LinkPreservesQueue
<1> QED  BY <1>1, <1>2, PTL DEF LinkSpec

\* The queue is an Outbox for the vehicle at the far end, too: with the
\* connection between them, which keeps, drops and delays packets, it still
\* transmits only what is pending, within its limits, and an answer or a
\* submission still settles no more than the message it is about.
THEOREM QueueOverLinkIsAnOutbox == LinkSpec => ImplementsOutbox
<1>1. LinkInit => AsOutbox!Init
  BY InitRefines DEF LinkInit
<1>2. Inv /\ RetryInv /\ CountedOnce /\ [LinkNext]_allVars => [AsOutbox!Next]_AsOutbox!vars
  BY LinkPreservesQueue
<1> QED
  BY <1>1, <1>2, LinkKeepsQueue, PTL DEF LinkSpec, ImplementsOutbox, AsOutbox!Spec

\* Command m is older than command n, which is about the same request.
Older(m, n) == {m, n} \subseteq Singles /\ Compare(Packet(m), Packet(n)) /\ Before(m, n)

Waiting == [msg : Messages, pos : Nat]

\* The inductive invariant of the wire.  That what goes out is not older than
\* what is gone needs the order of what waits; that what is handed over is not
\* older than what waits needs LatestWins of the queue, and so that everything
\* older than another submission was noted as superseded.
WireInv ==
  /\ order \in Seq(Messages) /\ \A i \in DOMAIN order : order[i] \notin fresh
  /\ waiting \in Seq(Waiting) /\ \A i \in DOMAIN waiting : waiting[i].msg \notin fresh
  /\ gone \subseteq Messages \ fresh
  /\ \A m, n \in Messages : Older(m, n) => m \in superseded
  /\ \A i, j \in DOMAIN waiting : i < j => ~Older(waiting[j].msg, waiting[i].msg)
  /\ \A n \in gone : \A i \in DOMAIN waiting : ~Older(waiting[i].msg, n)

\* A submission is younger than everything, and nothing of it waits or is gone.
LEMMA SubmitWire ==
  ASSUME Inv, WireInv, NEW m \in Messages, Submit(m)
  PROVE  WireInv'
<1>1. /\ m \in fresh /\ fresh' = fresh \ {m} /\ order' = Append(order, m)
      /\ UNCHANGED <<waiting, gone>>
      /\ superseded' = IF m \in Stacks THEN superseded
                       ELSE superseded \cup
                              {n \in Singles \ fresh : Compare(Packet(n), Packet(m))}
  BY DEF Submit, SendMessage
<1>2. PICK n : n = Len(order)
  OBVIOUS
<1>3. /\ n \in Nat /\ DOMAIN order = 1 .. n /\ DOMAIN order' = 1 .. n + 1
      /\ order' \in Seq(Messages)
      /\ \A i \in 1 .. n : order'[i] = order[i]
      /\ order'[n + 1] = m
  BY <1>1, <1>2, LenProperties, AppendProperties DEF WireInv
<1>4. \A i \in DOMAIN order : order[i] \in Messages \ fresh
  BY LenProperties, ElementOfSeq DEF WireInv
<1>5. ASSUME NEW k, NEW l, Older(k, l)'
      PROVE  Older(k, l) \/ (l = m /\ k \in Singles \ fresh /\ Compare(Packet(k), Packet(m)))
  <2>1. {k, l} \subseteq Singles /\ Compare(Packet(k), Packet(l))
    BY <1>5 DEF Older
  <2>2. PICK i, j \in 1 .. n + 1 : i < j /\ order'[i] = k /\ order'[j] = l
    BY <1>3, <1>5 DEF Older, Before
  <2>3. i \in 1 .. n
    BY <1>3, <2>2
  <2>4. CASE j = n + 1
    BY <1>3, <1>4, <2>1, <2>2, <2>3, <2>4
  <2>5. CASE j \in 1 .. n
    BY <1>3, <2>1, <2>2, <2>3, <2>5 DEF Older, Before
  <2> QED  BY <1>3, <2>2, <2>4, <2>5
<1>6. ASSUME NEW k \in Messages, NEW l \in Messages, Older(k, l)'
      PROVE  k \in superseded'
  <2>1. Older(k, l) => k \in superseded
    BY DEF WireInv
  <2>2. l = m => l \in Singles /\ m \notin Stacks
    BY <1>6 DEF Older, Singles
  <2> QED  BY <1>1, <1>5, <1>6, <2>1, <2>2
<1>7. ASSUME NEW l, l \notin fresh, NEW k, Older(k, l)'
      PROVE  Older(k, l)
  BY <1>1, <1>5, <1>7
<1>8. \A i \in DOMAIN order' : order'[i] \notin fresh'
  BY <1>1, <1>3, <1>4
<1>9. \A i, j \in DOMAIN waiting : i < j => ~Older(waiting[j].msg, waiting[i].msg)'
  BY <1>1, <1>7 DEF WireInv
<1>10. \A k \in gone : \A i \in DOMAIN waiting : ~Older(waiting[i].msg, k)'
  BY <1>1, <1>7 DEF WireInv
<1> QED  BY <1>1, <1>3, <1>6, <1>8, <1>9, <1>10 DEF WireInv
\* t is what is left of s when its first c elements are taken away.
Behind(s, t, c) ==
  /\ c \in Nat
  /\ DOMAIN t = 1 .. Len(s) - c
  /\ \A i \in DOMAIN t : i + c \in DOMAIN s /\ t[i] = s[i + c]

LEMMA TailIsBehind ==
  ASSUME NEW S, NEW s \in Seq(S), s # << >>
  PROVE  Tail(s) \in Seq(S) /\ Behind(s, Tail(s), 1)
<1>1. /\ Tail(s) \in Seq(S) /\ Len(Tail(s)) = Len(s) - 1 /\ Len(s) \in Nat
      /\ \A i \in 1 .. Len(s) - 1 : Tail(s)[i] = s[i + 1]
  BY HeadTailProperties, LenProperties
<1>2. DOMAIN Tail(s) = 1 .. Len(s) - 1 /\ DOMAIN s = 1 .. Len(s)
  BY <1>1, LenProperties
<1>3. \A i \in DOMAIN Tail(s) : i + 1 \in DOMAIN s
  BY <1>1, <1>2
<1> QED  BY <1>1, <1>2, <1>3 DEF Behind

LEMMA NewestIsBehind ==
  ASSUME NEW S, NEW s \in Seq(S)
  PROVE  Newest(s) \in Seq(S) /\ \E c \in Nat : Behind(s, Newest(s), c)
<1>1. Len(s) \in Nat /\ DOMAIN s = 1 .. Len(s) /\ Limit \in Nat
  BY LenProperties, CommandLinkAssumption
<1>2. CASE Len(s) > Limit
  <2>1. s # << >>
    BY <1>1, <1>2, EmptySeq
  <2> QED  BY <1>2, <2>1, TailIsBehind DEF Newest
<1>3. CASE ~(Len(s) > Limit)
  <2>1. Behind(s, s, 0)
    BY <1>1 DEF Behind
  <2> QED  BY <1>3, <2>1 DEF Newest
<1> QED  BY <1>2, <1>3

\* What is handed over is not older than anything that waits or is gone: it was
\* in a list, and so nothing newer was submitted.
LEMMA HandOverWire ==
  ASSUME Inv, WireInv, HandOver
  PROVE  WireInv'
<1>1. PICK i \in DOMAIN m_send[turn] :
        waiting' = Newest(Append(waiting, [msg |-> m_send[turn][i].msg,
                                           pos |-> m_send[turn][i].pos]))
  BY DEF HandOver
<1>2. PICK m : m = m_send[turn][i].msg
  OBVIOUS
<1>3. PICK w : w = [msg |-> m, pos |-> m_send[turn][i].pos]
  OBVIOUS
<1>4. m \in Messages \ fresh /\ m \notin superseded /\ w \in Waiting /\ w.msg = m
  <2>1. turn \in Priorities
    BY DEF Inv, TypeOK
  <2>2. m_send[turn][i] \in Entries
    BY <1>1, <2>1, InvLists, LenProperties, ElementOfSeq
  <2> QED  BY <1>1, <1>2, <1>3, <2>1, <2>2 DEF Inv, OnePlace, LatestWins, Entries, Waiting
<1>5. PICK all : all = Append(waiting, w)
  OBVIOUS
<1>6. /\ all \in Seq(Waiting) /\ Len(waiting) \in Nat
      /\ DOMAIN waiting = 1 .. Len(waiting) /\ DOMAIN all = 1 .. Len(waiting) + 1
      /\ \A k \in 1 .. Len(waiting) : all[k] = waiting[k]
      /\ all[Len(waiting) + 1] = w
  BY <1>4, <1>5, LenProperties, AppendProperties DEF WireInv
<1>7. PICK c \in Nat : Behind(all, waiting', c)
  BY <1>1, <1>2, <1>3, <1>5, <1>6, NewestIsBehind
<1>8. waiting' \in Seq(Waiting)
  BY <1>1, <1>2, <1>3, <1>5, <1>6, NewestIsBehind
<1>9. UNCHANGED <<order, fresh, gone, superseded>>
  BY DEF HandOver, Transmit
<1>10. \A n \in Messages : ~Older(m, n)
  BY <1>4 DEF WireInv
<1>11. \A k \in DOMAIN all : all[k].msg \in Messages \ fresh
  <2>1. \A k \in DOMAIN waiting : waiting[k] \in Waiting /\ waiting[k].msg \notin fresh
    BY <1>6, ElementOfSeq DEF WireInv
  <2>2. \A k \in DOMAIN waiting : waiting[k].msg \in Messages \ fresh
    BY <2>1 DEF Waiting
  <2>3. \A k \in DOMAIN all : all[k] = w \/ (k \in DOMAIN waiting /\ all[k] = waiting[k])
    BY <1>6
  <2> QED  BY <1>4, <2>2, <2>3
<1>12. \A k, l \in DOMAIN all : k < l => ~Older(all[l].msg, all[k].msg)
  <2> SUFFICES ASSUME NEW k \in DOMAIN all, NEW l \in DOMAIN all, k < l
               PROVE  ~Older(all[l].msg, all[k].msg)
    OBVIOUS
  <2>1. CASE l = Len(waiting) + 1
    BY <1>4, <1>6, <1>10, <1>11, <2>1
  <2>2. CASE l \in 1 .. Len(waiting)
    BY <1>6, <2>2 DEF WireInv
  <2> QED  BY <1>6, <2>1, <2>2
<1>13. \A n \in gone : \A k \in DOMAIN all : ~Older(all[k].msg, n)
  BY <1>4, <1>6, <1>10 DEF WireInv
<1>14. \A k, l : Older(k, l)' <=> Older(k, l)
  BY <1>9 DEF Older, Before
<1>15. PICK left : left = waiting'
  OBVIOUS
<1>16. \A k \in DOMAIN left : left[k].msg \notin fresh
  BY <1>7, <1>11, <1>15 DEF Behind
<1>17. \A k, l \in DOMAIN left : k < l => ~Older(left[l].msg, left[k].msg)
  <2> SUFFICES ASSUME NEW k \in DOMAIN left, NEW l \in DOMAIN left, k < l
               PROVE  ~Older(left[l].msg, left[k].msg)
    OBVIOUS
  <2>1. /\ k + c \in DOMAIN all /\ l + c \in DOMAIN all /\ k + c < l + c
        /\ left[k] = all[k + c] /\ left[l] = all[l + c]
    BY <1>6, <1>7, <1>15 DEF Behind
  <2> QED  BY <1>12, <2>1
<1>18. \A n \in gone : \A k \in DOMAIN left : ~Older(left[k].msg, n)
  BY <1>7, <1>13, <1>15 DEF Behind
<1> QED  BY <1>8, <1>9, <1>14, <1>15, <1>16, <1>17, <1>18 DEF WireInv

LEMMA GoOutWire ==
  ASSUME WireInv, GoOut
  PROVE  WireInv'
<1>1. /\ waiting # << >> /\ waiting' = Tail(waiting)
      /\ gone' = gone \cup {Head(waiting).msg}
      /\ UNCHANGED <<order, fresh, superseded>>
  BY DEF GoOut
<1>2. /\ Behind(waiting, waiting', 1) /\ waiting' \in Seq(Waiting)
      /\ Head(waiting) = waiting[1] /\ 1 \in DOMAIN waiting
      /\ waiting[1] \in Waiting
  BY <1>1, TailIsBehind, HeadTailProperties, LenProperties, EmptySeq, ElementOfSeq DEF WireInv
<1>3. PICK h : h = waiting[1].msg
  OBVIOUS
<1>4. h \in Messages \ fresh /\ gone' = gone \cup {h}
  BY <1>1, <1>2, <1>3 DEF WireInv, Waiting
<1>5. \A k, l : Older(k, l)' <=> Older(k, l)
  BY <1>1 DEF Older, Before
<1>6. PICK left : left = waiting'
  OBVIOUS
<1>7. \A k \in DOMAIN left : k \in Nat /\ k > 0 /\ k + 1 \in DOMAIN waiting /\ left[k] = waiting[k + 1]
  BY <1>2, <1>6, LenProperties DEF Behind, WireInv
<1>8. \A k, l \in DOMAIN left : k < l => ~Older(left[l].msg, left[k].msg)
  <2> SUFFICES ASSUME NEW k \in DOMAIN left, NEW l \in DOMAIN left, k < l
               PROVE  ~Older(left[l].msg, left[k].msg)
    OBVIOUS
  <2>1. k + 1 \in DOMAIN waiting /\ l + 1 \in DOMAIN waiting /\ k + 1 < l + 1
    BY <1>7
  <2> QED  BY <1>7, <2>1 DEF WireInv
<1>9. \A k \in DOMAIN left : ~Older(left[k].msg, h)
  <2> TAKE k \in DOMAIN left
  <2>1. k + 1 \in DOMAIN waiting /\ 1 < k + 1
    BY <1>7
  <2> QED  BY <1>2, <1>3, <1>7, <2>1 DEF WireInv
<1>10. \A n \in gone : \A k \in DOMAIN left : ~Older(left[k].msg, n)
  BY <1>7 DEF WireInv
<1>11. \A k \in DOMAIN left : left[k].msg \notin fresh
  BY <1>7 DEF WireInv
<1> QED  BY <1>1, <1>2, <1>4, <1>5, <1>6, <1>8, <1>9, <1>10, <1>11 DEF WireInv

LEMMA LinkPreservesWire ==
  ASSUME Inv, WireInv, [LinkNext]_allVars
  PROVE  WireInv'
<1>1. CASE UNCHANGED <<order, waiting, gone, fresh, superseded>>
  BY <1>1 DEF WireInv, Older, Before
<1>2. ASSUME NEW m \in Messages, TimelyElapse(m)
      PROVE  UNCHANGED <<fresh, superseded>>
  BY <1>2 DEF TimelyElapse, Elapse
<1>3. QueueStep => WireInv'
  BY <1>1, <1>2, SubmitWire, HandOverWire
     DEF QueueStep, NothingDue, StartMessaging, ProcessFromParent, linkVars
<1> QED
  BY <1>1, <1>3, GoOutWire DEF LinkNext, PeerChanges, allVars, vars, linkVars

LEMMA WireInvHolds == LinkSpec => []WireInv
<1>1. LinkInit => WireInv
  BY EmptySeq DEF LinkInit, Init, WireInv, Older, Before
<1> QED  BY <1>1, LinkKeepsQueue, LinkPreservesWire, PTL DEF LinkSpec

\* Nothing overtakes on the way to the vehicle: once a command has gone out, no
\* command it replaced (the ARM before a DISARM) goes out, neither from a list
\* of the queue nor from what the connection kept while it had no peer.
THEOREM NewestGoesOutLast == LinkSpec => WireNewestLast
<1>1. ASSUME WireInv, GoOut, NEW m \in Singles, NEW n \in gone \cap Singles,
             Head(waiting).msg = m, Compare(Packet(m), Packet(n))
      PROVE  ~Before(m, n)
  <2>1. 1 \in DOMAIN waiting /\ Head(waiting) = waiting[1]
    BY <1>1, HeadTailProperties, LenProperties, EmptySeq DEF WireInv, GoOut
  <2> QED  BY <1>1, <2>1 DEF WireInv, Older
<1>2. WireInv /\ [LinkNext]_allVars =>
        [GoOut =>
           \A m \in Singles : \A n \in gone \cap Singles :
             Head(waiting).msg = m /\ Compare(Packet(m), Packet(n)) => ~Before(m, n)]_allVars
  BY <1>1
<1> QED  BY <1>2, WireInvHolds, PTL DEF LinkSpec, WireNewestLast
=============================================================================
