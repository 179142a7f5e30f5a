-------------------------- MODULE DistLockProofs ----------------------------
(* Mutual exclusion of the distributed locks, and that a call of lock() which  *)
(* failed leaves no lock behind, for any number of clients, names, sessions,   *)
(* processes, retries and failing calls.  The argument: the unlock of a        *)
(* session is queued only when its call is over, nobody else writes under the  *)
(* session of a call of lock(), and a lock is overtaken only from a session    *)
(* whose process was silent.                                                   *)
EXTENDS DistLock, TLAPS

Pcs == {"idle", "grab", "undo", "look", "expire", "overtake", "busy", "held", "done"}
Docs == {Free} \cup [state : {"UNLOCKED", "LOCKED"}, ts : Session]
Calls == [pc : Pcs, retries : 0..kMaxNumLockAcquireRetries,
          seen : Session \cup {NoSession}, calls : Nat]
Entries == [ts : Session, name : Name \cup {AnyName}]
Writes == [by : Client, write : {"grabLock", "overtakeLock", "unlock"},
           seen : Session \cup {NoSession}]

(* The unlock e is on the list of process p. *)
InList(p, e) == \E i \in DOMAIN unlockList[p] : unlockList[p][i] = e

(* What a client knows of the document in its way: it is there, and when it    *)
(* is to be overtaken, its owner was silent or is the client's own session.    *)
Seen(c) ==
  /\ At(c, "look") => doc[NameOf[c]] # Free
  /\ At(c, "expire") \/ At(c, "overtake") => call[c].seen \in Session
  /\ At(c, "overtake") => ProcessOf[call[c].seen] \in silent \/ call[c].seen = SessionOf[c]

SeenInv == \A c \in Client : Seen(c)

(* So too of an overtakeLock that is still on its way. *)
SeenSilent(w) ==
  w.write = "overtakeLock" =>
    w.seen \in Session /\ (ProcessOf[w.seen] \in silent \/ w.seen = SessionOf[w.by])

LateInv == \A w \in late : SeenSilent(w)

(* A call of lock() queues an unlock only when it is over. *)
QueuedInv ==
  \A p \in Process, e \in Entries, c \in Client \ Reusing :
    InList(p, e) /\ SessionOf[c] = e.ts => At(c, "done")

(* Nobody else uses the session of a call of lock(). *)
OwnDocInv ==
  \A n \in Name, c \in Client \ Reusing : doc[n].ts = SessionOf[c] => n = NameOf[c]

(* A call of lock() that does not have the lock yet does not own it, but for a *)
(* write that came late; between a failed grabLock and its unlock it may.      *)
Attempt(c) ==
  c \notin Reusing /\ Owns(c) =>
    At(c, "undo") \/ At(c, "held") \/ At(c, "done") \/ SessionOf[c] \in orphaned

AttemptInv == \A c \in Client : Attempt(c)

(* What only a failing call can lead to. *)
FaultInv ==
  faults = 0 => /\ late = {} /\ \A c \in Client : ~At(c, "undo")
                /\ \A p \in Process, e \in Entries : ~InList(p, e)

(* NothingLeftBehind of one client, in terms of InList. *)
Behind(c) ==
  c \notin Reusing /\ At(c, "done") /\ Owns(c) /\ SessionOf[c] \notin orphaned =>
    \E e \in Entries : /\ InList(ProcessOf[SessionOf[c]], e)
                       /\ e.ts = SessionOf[c] /\ e.name \in {NameOf[c], AnyName}

BehindInv == \A c \in Client : Behind(c)

(* What HolderIsOwner says of one client that holds the lock. *)
Holds(c) ==
  \/ Owns(c)
  \/ SessionOf[c] \in forced /\ ProcessOf[SessionOf[c]] \in silent
  \/ SessionOf[c] \in undone
  \/ c \in Reusing /\ faults > 0

IndInv ==
  /\ TypeOK
  /\ SeenInv
  /\ LateInv
  /\ QueuedInv
  /\ OwnDocInv
  /\ AttemptInv
  /\ FaultInv
  /\ BehindInv
  /\ HolderIsOwner
-----------------------------------------------------------------------------
(* The steps of a call: only its own entry changes. *)
LEMMA EntryTyped ==
  ASSUME NEW to \in Pcs, NEW n \in Nat
  PROVE  /\ [NoCall EXCEPT !.pc = to, !.calls = n] \in Calls
         /\ [NoCall EXCEPT !.pc = to, !.calls = n].pc = to
<1>1. 0 \in 0..kMaxNumLockAcquireRetries
  BY ClientAssumption
<1> QED
  BY <1>1 DEF NoCall, Calls

LEMMA GoFacts ==
  ASSUME TypeOK, NEW c \in Client, NEW to \in Pcs, Go(c, to)
  PROVE  /\ call' \in [Client -> Calls] /\ At(c, to)'
         /\ \A b \in Client \ {c} : call'[b] = call[b]
<1>1. call \in [Client -> Calls] /\ call[c].calls \in Nat
  BY DEF TypeOK, Calls, Pcs
<1> DEFINE r == [NoCall EXCEPT !.pc = to, !.calls = call[c].calls]
<1>2. r \in Calls /\ r.pc = to
  BY <1>1, EntryTyped
<1>3. call' = [call EXCEPT ![c] = r]
  BY DEF Go
<1> HIDE DEF r
<1> QED
  BY <1>1, <1>2, <1>3 DEF At

LEMMA LeaveFacts ==
  ASSUME TypeOK, NEW c \in Client, Leave(c)
  PROVE  /\ call' \in [Client -> Calls]
         /\ IF c \in Reusing THEN At(c, "idle")' ELSE At(c, "done")'
         /\ \A b \in Client \ {c} : call'[b] = call[b]
<1>1. CASE c \in Reusing
  <2>1. Go(c, "idle") /\ "idle" \in Pcs
    BY <1>1 DEF Leave, Pcs
  <2> QED
    BY <1>1, <2>1, GoFacts
<1>2. CASE c \notin Reusing
  <2>1. Go(c, "done") /\ "done" \in Pcs
    BY <1>2 DEF Leave, Pcs
  <2> QED
    BY <1>2, <2>1, GoFacts
<1> QED
  BY <1>1, <1>2

(* What is on the unlock lists after one was queued, sent or queued again. *)
LEMMA QueueFacts ==
  ASSUME TypeOK, NEW c \in Client, NEW name \in Name \cup {AnyName}, QueueUnlock(c, name)
  PROVE  /\ unlockList' \in [Process -> Seq(Entries)]
         /\ \A p \in Process, e \in Entries :
              InList(p, e)' <=> \/ InList(p, e)
                                \/ /\ p = ProcessOf[SessionOf[c]]
                                   /\ e = [ts |-> SessionOf[c], name |-> name]
<1> DEFINE q == ProcessOf[SessionOf[c]]
           new == [ts |-> SessionOf[c], name |-> name]
<1>1. unlockList \in [Process -> Seq(Entries)] /\ q \in Process /\ new \in Entries
  BY ClientAssumption DEF TypeOK, Entries
<1>2. unlockList' = [unlockList EXCEPT ![q] = Append(unlockList[q], new)]
  BY DEF QueueUnlock
<1> HIDE DEF q, new
<1>3. unlockList' \in [Process -> Seq(Entries)]
  BY <1>1, <1>2
<1>4. ASSUME NEW e \in Entries
      PROVE  InList(q, e)' <=> InList(q, e) \/ e = new
  <2>1. unlockList'[q] = Append(unlockList[q], new)
    BY <1>1, <1>2
  <2> DEFINE l == unlockList[q]
  <2>2. l \in Seq(Entries)
    BY <1>1
  <2> HIDE DEF l
  <2>3. (\E i \in DOMAIN Append(l, new) : Append(l, new)[i] = e)
          <=> (\E i \in DOMAIN l : l[i] = e) \/ e = new
    <3>1. /\ DOMAIN l = 1..Len(l) /\ DOMAIN Append(l, new) = 1..(Len(l) + 1) /\ Len(l) \in Nat
          /\ Append(l, new)[Len(l) + 1] = new
          /\ \A i \in 1..Len(l) : Append(l, new)[i] = l[i]
      BY <1>1, <2>2
    <3>2. Len(l) + 1 \in 1..(Len(l) + 1) /\ 1..Len(l) \subseteq 1..(Len(l) + 1)
          /\ \A i \in 1..(Len(l) + 1) : i \in 1..Len(l) \/ i = Len(l) + 1
      BY <3>1
    <3> QED
      BY Zenon, <3>1, <3>2
  <2> QED
    BY Zenon, <2>1, <2>3 DEF InList, l
<1>5. ASSUME NEW p \in Process, p # q, NEW e \in Entries
      PROVE  InList(p, e)' <=> InList(p, e)
  <2>1. unlockList'[p] = unlockList[p]
    BY <1>1, <1>2, <1>5
  <2> QED
    BY Zenon, <2>1 DEF InList
<1> QED
  BY Zenon, <1>3, <1>4, <1>5 DEF q, new

LEMMA HeadFacts ==
  ASSUME NEW l \in Seq(Entries), l # <<>>
  PROVE  /\ Head(l) \in Entries /\ Tail(l) \in Seq(Entries)
         /\ \A e \in Entries : (\E i \in DOMAIN l : l[i] = e)
                                 <=> e = Head(l) \/ \E i \in DOMAIN Tail(l) : Tail(l)[i] = e
<1>1. /\ Len(l) \in Nat /\ Len(l) >= 1 /\ DOMAIN l = 1..Len(l) /\ Head(l) = l[1]
      /\ l[1] \in Entries /\ Tail(l) \in Seq(Entries)
      /\ DOMAIN Tail(l) = 1..(Len(l) - 1)
      /\ \A i \in 1..(Len(l) - 1) : Tail(l)[i] = l[i + 1]
  OBVIOUS
<1>2. ASSUME NEW e \in Entries, NEW i \in DOMAIN l, l[i] = e
      PROVE  e = Head(l) \/ \E j \in DOMAIN Tail(l) : Tail(l)[j] = e
  <2>1. CASE i = 1
    BY <1>1, <1>2, <2>1
  <2>2. CASE i # 1
    <3>1. (i - 1) \in DOMAIN Tail(l) /\ Tail(l)[i - 1] = e
      BY <1>1, <1>2, <2>2
    <3> QED
      BY Zenon, <3>1
  <2> QED
    BY <2>1, <2>2
<1>3. ASSUME NEW e \in Entries, NEW j \in DOMAIN Tail(l), Tail(l)[j] = e
      PROVE  \E i \in DOMAIN l : l[i] = e
  <2>1. (j + 1) \in DOMAIN l /\ l[j + 1] = e
    BY <1>1, <1>3
  <2> QED
    BY Zenon, <2>1
<1>4. 1 \in DOMAIN l /\ l[1] = Head(l)
  BY <1>1
<1> QED
  BY Zenon, <1>1, <1>2, <1>3, <1>4

LEMMA SentFacts ==
  ASSUME TypeOK, NEW p \in Process, unlockList[p] # <<>>,
         unlockList' = [unlockList EXCEPT ![p] = Tail(@)]
  PROVE  /\ unlockList' \in [Process -> Seq(Entries)]
         /\ \A q \in Process, e \in Entries :
              /\ InList(q, e)' => InList(q, e)
              /\ InList(q, e) => InList(q, e)' \/ (q = p /\ e = Head(unlockList[p]))
<1>1. unlockList \in [Process -> Seq(Entries)] /\ unlockList[p] \in Seq(Entries)
  BY DEF TypeOK, Entries
<1>2. Tail(unlockList[p]) \in Seq(Entries)
  BY Zenon, <1>1, HeadFacts
<1>3. unlockList'[p] = Tail(unlockList[p]) /\ \A q \in Process \ {p} : unlockList'[q] = unlockList[q]
  BY <1>1
<1>4. unlockList' \in [Process -> Seq(Entries)]
  BY <1>1, <1>2
<1>5. \A e \in Entries : InList(p, e) <=> e = Head(unlockList[p]) \/ InList(p, e)'
  <2>1. \A e \in Entries : (\E i \in DOMAIN unlockList[p] : unlockList[p][i] = e)
            <=> e = Head(unlockList[p]) \/ \E i \in DOMAIN Tail(unlockList[p]) : Tail(unlockList[p])[i] = e
    BY Zenon, <1>1, HeadFacts
  <2>2. \A e : InList(p, e)' <=> \E i \in DOMAIN Tail(unlockList[p]) : Tail(unlockList[p])[i] = e
    BY Zenon, <1>3 DEF InList
  <2> QED
    BY Zenon, <2>1, <2>2 DEF InList
<1>6. \A q \in Process \ {p}, e \in Entries : InList(q, e)' <=> InList(q, e)
  BY Zenon, <1>3 DEF InList
<1> QED
  BY Zenon, <1>4, <1>5, <1>6

LEMMA QueuedAgainFacts ==
  ASSUME TypeOK, NEW p \in Process, unlockList[p] # <<>>,
         unlockList' = [unlockList EXCEPT ![p] = Append(Tail(@), Head(@))]
  PROVE  /\ unlockList' \in [Process -> Seq(Entries)]
         /\ \A q \in Process, e \in Entries : InList(q, e)' <=> InList(q, e)
<1> DEFINE l == unlockList[p]
<1>1. unlockList \in [Process -> Seq(Entries)] /\ l \in Seq(Entries)
  BY DEF TypeOK, Entries
<1>2. Head(l) \in Entries /\ Tail(l) \in Seq(Entries)
  BY <1>1, HeadFacts
<1>3. unlockList'[p] = Append(Tail(l), Head(l))
      /\ \A q \in Process \ {p} : unlockList'[q] = unlockList[q]
  BY <1>1
<1>4. unlockList' \in [Process -> Seq(Entries)]
  BY <1>1, <1>2
<1>5. \A e \in Entries : InList(p, e)' <=> InList(p, e)
  <2> DEFINE t == Tail(l)
             h == Head(l)
  <2> TAKE e \in Entries
  <2>1. (\E i \in DOMAIN l : l[i] = e) <=> e = h \/ \E i \in DOMAIN t : t[i] = e
    BY Zenon, <1>1, HeadFacts
  <2>2. t \in Seq(Entries) /\ h \in Entries
    BY <1>2
  <2> HIDE DEF t, h
  <2>3. /\ DOMAIN t = 1..Len(t) /\ DOMAIN Append(t, h) = 1..(Len(t) + 1) /\ Len(t) \in Nat
        /\ Append(t, h)[Len(t) + 1] = h
        /\ \A i \in 1..Len(t) : Append(t, h)[i] = t[i]
    BY <2>2
  <2>4. Len(t) + 1 \in 1..(Len(t) + 1) /\ 1..Len(t) \subseteq 1..(Len(t) + 1)
        /\ \A i \in 1..(Len(t) + 1) : i \in 1..Len(t) \/ i = Len(t) + 1
    BY <2>3
  <2>5. (\E i \in DOMAIN Append(t, h) : Append(t, h)[i] = e)
          <=> (\E i \in DOMAIN t : t[i] = e) \/ e = h
    BY Zenon, <2>3, <2>4
  <2> QED
    BY Zenon, <1>3, <2>1, <2>5 DEF InList, t, h
<1>6. \A q \in Process \ {p}, e \in Entries : InList(q, e)' <=> InList(q, e)
  BY Zenon, <1>3 DEF InList
<1> QED
  BY Zenon, <1>4, <1>5, <1>6
-----------------------------------------------------------------------------
(* What a step of client c, or a write of its that arrives late, leaves of the *)
(* others: their calls, and whether they own their locks.                      *)
OthersKept(c) ==
  /\ \A n \in Name : doc[n] # Free => doc'[n] # Free
  /\ \A b \in Client \ {c} : call'[b] = call[b] /\ (Owns(b)' => Owns(b)) /\ (Owns(b) => Holds(b)')
  /\ silent \subseteq silent' /\ forced \subseteq forced'
  /\ orphaned \subseteq orphaned' /\ undone \subseteq undone'
  /\ faults \in Nat /\ faults' \in Nat /\ faults' >= faults

(* Two clients that use one session lock different names. *)
LEMMA SessionFacts ==
  ASSUME NEW b \in Client, NEW c \in Client, b # c, NameOf[b] = NameOf[c]
  PROVE  SessionOf[b] # SessionOf[c] /\ Locked(b) # Locked(c)
<1>1. SessionOf[b] # SessionOf[c]
  BY Zenon, ClientAssumption
<1> QED
  BY <1>1 DEF Locked

LEMMA OthersPreserved ==
  ASSUME NEW c \in Client, OthersKept(c), SeenInv, AttemptInv, HolderIsOwner
  PROVE  /\ Seen(c)' => SeenInv'
         /\ Attempt(c)' => AttemptInv'
         /\ (At(c, "held") => Holds(c))' => HolderIsOwner'
<1>1. \A b \in Client \ {c} : Seen(b)'
  BY Zenon, ClientAssumption DEF OthersKept, SeenInv, Seen, At
<1>2. \A b \in Client \ {c} : Attempt(b)'
  BY Zenon DEF OthersKept, AttemptInv, Attempt, At
<1>3. \A b \in Client \ {c} : At(b, "held")' => Holds(b)'
  <2> SUFFICES ASSUME NEW b \in Client \ {c}, At(b, "held")'
               PROVE  Holds(b)'
    OBVIOUS
  <2>1. At(b, "held") /\ (Owns(b) => Holds(b)')
    BY Zenon DEF OthersKept, At
  <2>2. Holds(b)
    BY Zenon, <2>1 DEF HolderIsOwner, Holds
  <2>3. faults > 0 => faults' > 0
    BY DEF OthersKept
  <2> QED
    BY Zenon, <2>1, <2>2, <2>3 DEF OthersKept, Holds
<1> QED
  BY Zenon, <1>1, <1>2, <1>3 DEF SeenInv, AttemptInv, HolderIsOwner, Holds

(* The writes on config.locks: the document of client c is locked, grabbed if  *)
(* it was free, or one document of a session is unlocked.                      *)
DocKept ==
  /\ doc' \in [Name -> Docs]
  /\ OwnDocInv'
  /\ \A n \in Name : doc[n] # Free => doc'[n] # Free

LEMMA LockedFacts ==
  ASSUME TypeOK, OwnDocInv, NEW c \in Client, doc' = [doc EXCEPT ![NameOf[c]] = Locked(c)]
  PROVE  /\ DocKept /\ Owns(c)'
         /\ \A b \in Client \ {c} : /\ Owns(b)' => Owns(b)
                                    /\ Owns(b) /\ NameOf[b] # NameOf[c] => Owns(b)'
<1>1. doc \in [Name -> Docs] /\ NameOf[c] \in Name /\ Locked(c) \in Docs /\ Locked(c) # Free
      /\ Locked(c).ts = SessionOf[c]
  BY ClientAssumption DEF TypeOK, Docs, Locked, Free
<1>2. doc' \in [Name -> Docs] /\ doc'[NameOf[c]] = Locked(c)
      /\ \A n \in Name \ {NameOf[c]} : doc'[n] = doc[n]
  BY <1>1
<1>3. OwnDocInv'
  <2> SUFFICES ASSUME NEW n \in Name, NEW b \in Client \ Reusing, doc'[n].ts = SessionOf[b]
               PROVE  n = NameOf[b]
    BY Zenon DEF OwnDocInv
  <2>1. CASE n = NameOf[c]
    <3>1. SessionOf[b] = SessionOf[c]
      BY Zenon, <1>1, <1>2, <2>1
    <3> QED
      BY Zenon, <2>1, <3>1, ClientAssumption
  <2>2. CASE n # NameOf[c]
    BY Zenon, <1>2, <2>2 DEF OwnDocInv
  <2> QED
    BY <2>1, <2>2
<1>4. \A n \in Name : doc[n] # Free => doc'[n] # Free
  BY Zenon, <1>1, <1>2
<1>5. \A b \in Client : NameOf[b] \in Name
  BY ClientAssumption
<1>6. \A b \in Client \ {c} : /\ Owns(b)' => Owns(b)
                              /\ Owns(b) /\ NameOf[b] # NameOf[c] => Owns(b)'
  <2> TAKE b \in Client \ {c}
  <2>1. CASE NameOf[b] = NameOf[c]
    <3>1. Locked(b) # Locked(c)
      BY Zenon, <2>1, SessionFacts
    <3>2. Locked(b)' = Locked(b)
      BY DEF Locked
    <3> QED
      BY Zenon, <1>2, <2>1, <3>1, <3>2 DEF Owns
  <2>2. CASE NameOf[b] # NameOf[c]
    BY <1>2, <1>5, <2>2 DEF Owns, Locked
  <2> QED
    BY Zenon, <2>1, <2>2
<1> QED
  BY <1>2, <1>3, <1>4, <1>6 DEF DocKept, Owns, Locked

LEMMA GrabbedFacts ==
  ASSUME TypeOK, OwnDocInv, NEW c \in Client, doc' = Grabbed(c)
  PROVE  /\ DocKept
         /\ IF doc[NameOf[c]].state = "UNLOCKED" THEN Owns(c)' ELSE doc' = doc
         /\ \A b \in Client \ {c} : Owns(b)' <=> Owns(b)
<1>1. CASE doc[NameOf[c]].state = "UNLOCKED"
  <2>1. doc' = [doc EXCEPT ![NameOf[c]] = Locked(c)]
    BY Zenon, <1>1 DEF Grabbed
  <2>2. ASSUME NEW b \in Client, Owns(b)
        PROVE  NameOf[b] # NameOf[c]
    BY <1>1, <2>2 DEF Owns, Locked
  <2> QED
    BY Zenon, <1>1, <2>1, <2>2, LockedFacts
<1>2. CASE doc[NameOf[c]].state # "UNLOCKED"
  <2>1. doc' = doc
    BY Zenon, <1>2 DEF Grabbed
  <2> QED
    BY <1>2, <2>1 DEF TypeOK, Docs, DocKept, OwnDocInv, Owns, Locked
<1> QED
  BY Zenon, <1>1, <1>2

LEMMA UnlockedFacts ==
  ASSUME TypeOK, OwnDocInv, NEW ts \in Session, NEW name \in Name \cup {AnyName},
         doc' \in Unlocked(ts, name)
  PROVE  /\ DocKept
         /\ \A b \in Client : /\ Owns(b)' => Owns(b)
                              /\ Owns(b) => \/ Owns(b)'
                                            \/ SessionOf[b] = ts /\ name \in {NameOf[b], AnyName}
                              /\ b \notin Reusing /\ SessionOf[b] = ts
                                   /\ name \in {NameOf[b], AnyName} => ~Owns(b)'
<1> DEFINE match == {n \in Name : doc[n].ts = ts /\ name \in {n, AnyName}}
<1>1. /\ doc \in [Name -> Docs]
      /\ \A b \in Client : /\ NameOf[b] \in Name /\ Locked(b)' = Locked(b)
                           /\ Locked(b).ts = SessionOf[b] /\ Locked(b).state = "LOCKED"
  BY ClientAssumption DEF TypeOK, Docs, Locked
<1>2. CASE match = {}
  <2>1. doc' = doc
    BY Zenon, <1>2 DEF Unlocked
  <2>2. DocKept
    BY <1>1, <2>1 DEF DocKept, OwnDocInv
  <2>3. \A b \in Client : Owns(b)' <=> Owns(b)
    BY Zenon, <1>1, <2>1 DEF Owns
  <2>4. \A b \in Client : Owns(b) => ~(SessionOf[b] = ts /\ name \in {NameOf[b], AnyName})
    BY Zenon, <1>1, <1>2 DEF Owns
  <2> QED
    BY Zenon, <2>2, <2>3, <2>4
<1>3. CASE match # {}
  <2>1. PICK m \in match : doc' = [doc EXCEPT ![m].state = "UNLOCKED"]
    BY Zenon, <1>3 DEF Unlocked
  <2>2. m \in Name /\ doc[m].ts = ts /\ name \in {m, AnyName}
    OBVIOUS
  <2>3. doc[m] \in [state : {"UNLOCKED", "LOCKED"}, ts : Session]
    BY <1>1, <2>2, ClientAssumption DEF Docs, Free
  <2>4. [doc[m] EXCEPT !.state = "UNLOCKED"] \in Docs
        /\ [doc[m] EXCEPT !.state = "UNLOCKED"].ts = ts
        /\ [doc[m] EXCEPT !.state = "UNLOCKED"].state = "UNLOCKED"
    BY <2>2, <2>3 DEF Docs
  <2>5. doc' = [doc EXCEPT ![m] = [doc[m] EXCEPT !.state = "UNLOCKED"]]
    BY <2>1
  <2> HIDE DEF match
  <2>6. doc' \in [Name -> Docs] /\ doc'[m].ts = ts /\ doc'[m].state = "UNLOCKED"
        /\ \A n \in Name \ {m} : doc'[n] = doc[n]
    BY <1>1, <2>2, <2>4, <2>5
  <2>7. doc'[m] # Free
    BY <2>6, ClientAssumption DEF Free
  <2>8. DocKept
    <3>1. \A n \in Name : doc'[n].ts = doc[n].ts
      BY Zenon, <2>2, <2>6
    <3>2. \A n \in Name : doc[n] # Free => doc'[n] # Free
      BY Zenon, <2>6, <2>7
    <3>3. OwnDocInv'
      BY Zenon, <3>1 DEF OwnDocInv
    <3> QED
      BY Zenon, <2>6, <3>2, <3>3 DEF DocKept
  <2>9. \A b \in Client : Owns(b)' => NameOf[b] # m
    <3> SUFFICES ASSUME NEW b \in Client, Owns(b)', NameOf[b] = m
                 PROVE  FALSE
      OBVIOUS
    <3>1. doc'[m] = Locked(b)
      BY Zenon, <1>1 DEF Owns
    <3> QED
      BY <1>1, <2>6, <3>1
  <2>10. \A b \in Client : Owns(b)' => Owns(b)
    <3> SUFFICES ASSUME NEW b \in Client, Owns(b)'
                 PROVE  Owns(b)
      BY Zenon
    <3>1. doc'[NameOf[b]] = doc[NameOf[b]]
      BY Zenon, <1>1, <2>6, <2>9
    <3> QED
      BY Zenon, <1>1, <3>1 DEF Owns
  <2>11. \A b \in Client : Owns(b) => \/ Owns(b)'
                                      \/ SessionOf[b] = ts /\ name \in {NameOf[b], AnyName}
    <3> SUFFICES ASSUME NEW b \in Client, Owns(b), NameOf[b] # m
                 PROVE  Owns(b)'
      BY Zenon, <1>1, <2>2 DEF Owns
    <3>1. doc'[NameOf[b]] = doc[NameOf[b]]
      BY Zenon, <1>1, <2>6
    <3> QED
      BY Zenon, <1>1, <3>1 DEF Owns
  <2>12. \A b \in Client : b \notin Reusing /\ SessionOf[b] = ts => ~Owns(b)'
    BY Zenon, <2>2, <2>9 DEF OwnDocInv
  <2> QED
    BY Zenon, <2>8, <2>10, <2>11, <2>12
<1> QED
  BY Zenon, <1>2, <1>3

(* An unlock of a client does not touch the lock of another one. *)
LEMMA UnlockedOfClient ==
  ASSUME TypeOK, OwnDocInv, NEW c \in Client, NEW name \in {NameOf[c], AnyName},
         c \in Reusing => name = NameOf[c], doc' \in Unlocked(SessionOf[c], name)
  PROVE  /\ DocKept
         /\ \A b \in Client \ {c} : Owns(b)' <=> Owns(b)
         /\ Owns(c)' => Owns(c)
         /\ c \notin Reusing => ~Owns(c)'
<1>1. SessionOf[c] \in Session /\ name \in Name \cup {AnyName}
  BY ClientAssumption
<1>2. \A b \in Client \ {c} : ~(SessionOf[b] = SessionOf[c] /\ name \in {NameOf[b], AnyName})
  <2> SUFFICES ASSUME NEW b \in Client \ {c}, SessionOf[b] = SessionOf[c],
                      name \in {NameOf[b], AnyName}
               PROVE  FALSE
    OBVIOUS
  <2>1. c \in Reusing /\ NameOf[b] # NameOf[c]
    BY ClientAssumption
  <2>2. NameOf[c] \in Name /\ AnyName \notin Name
    BY ClientAssumption
  <2> QED
    BY <2>1, <2>2
<1> QED
  BY <1>1, <1>2, UnlockedFacts

LEMMA UnwrittenFacts ==
  ASSUME TypeOK, OwnDocInv, doc' = doc
  PROVE  DocKept /\ \A b \in Client : Owns(b)' <=> Owns(b)
  BY DEF TypeOK, Docs, DocKept, OwnDocInv, Owns, Locked

(* What a step of client c leaves of the unlock lists. *)
ListKept(c) ==
  /\ unlockList' \in [Process -> Seq(Entries)]
  /\ \A p \in Process, e \in Entries :
       /\ InList(p, e) => InList(p, e)'
       /\ InList(p, e)' => \/ InList(p, e)
                           \/ e.ts = SessionOf[c] /\ (c \in Reusing \/ At(c, "done")')

LEMMA UnqueuedFacts ==
  ASSUME TypeOK, unlockList' = unlockList
  PROVE  \A c : ListKept(c)
  BY DEF TypeOK, Entries, ListKept, InList

LEMMA QueuedFacts ==
  ASSUME TypeOK, NEW c \in Client, NEW name \in {NameOf[c], AnyName},
         QueueUnlock(c, name), c \in Reusing \/ At(c, "done")'
  PROVE  ListKept(c) /\ Behind(c)'
<1>1. SessionOf[c] \in Session /\ ProcessOf[SessionOf[c]] \in Process
      /\ name \in Name \cup {AnyName}
  BY ClientAssumption
<1> DEFINE new == [ts |-> SessionOf[c], name |-> name]
<1>2. new \in Entries /\ new.ts = SessionOf[c] /\ new.name = name
  BY <1>1 DEF Entries
<1>3. /\ unlockList' \in [Process -> Seq(Entries)]
      /\ \A p \in Process, e \in Entries :
           InList(p, e)' <=> InList(p, e) \/ (p = ProcessOf[SessionOf[c]] /\ e = new)
  BY Zenon, <1>1, QueueFacts
<1> HIDE DEF new
<1>4. ListKept(c)
  BY Zenon, <1>2, <1>3 DEF ListKept
<1>5. InList(ProcessOf[SessionOf[c]], new)'
  BY Zenon, <1>1, <1>2, <1>3
<1>6. Behind(c)'
  BY Zenon, <1>2, <1>5 DEF Behind
<1> QED
  BY <1>4, <1>6

(* The last two conjuncts of the step: what is left of the other calls and of  *)
(* the ghost variables when only c moves.                                      *)
LateKept == late' \subseteq Writes /\ \A w \in late' : w \in late \/ SeenSilent(w)'

GhostsKept ==
  /\ faults \in Nat /\ (faults' = faults \/ faults' = faults + 1) /\ faults' \in 0..MaxFaults
  /\ LateKept
  /\ silent \subseteq silent' /\ forced \subseteq forced'
  /\ orphaned \subseteq orphaned' /\ undone \subseteq undone'
  /\ silent' \subseteq Process /\ forced' \subseteq Session
  /\ orphaned' \subseteq Session /\ undone' \subseteq Session

Moves(c) ==
  /\ call' \in [Client -> Calls]
  /\ \A b \in Client \ {c} : call'[b] = call[b]
  /\ At(c, "done") => At(c, "done")'

(* The conjuncts of the invariant that are about client c itself. *)
Mine(c) == Seen(c) /\ Attempt(c) /\ Behind(c) /\ (At(c, "held") => Holds(c))

LEMMA StepKept ==
  ASSUME IndInv, NEW c \in Client, DocKept, ListKept(c), GhostsKept, Moves(c), Mine(c)', FaultInv',
         \A b \in Client \ {c} : (Owns(b)' => Owns(b)) /\ (Owns(b) => Holds(b)')
  PROVE  IndInv'
<1>1. TypeOK'
  BY DEF DocKept, ListKept, GhostsKept, LateKept, Writes, Moves, TypeOK, Docs, Calls, Pcs, Entries
<1>2. faults' \in Nat /\ faults' >= faults
  BY DEF GhostsKept
<1>3. OthersKept(c)
  BY Zenon, <1>2 DEF OthersKept, DocKept, Moves, GhostsKept
<1>4. SeenInv' /\ AttemptInv' /\ HolderIsOwner'
  BY Zenon, <1>3, OthersPreserved DEF IndInv, Mine
<1>5. QueuedInv'
  <2> SUFFICES ASSUME NEW p \in Process, NEW e \in Entries, NEW b \in Client \ Reusing,
                      InList(p, e)', SessionOf[b] = e.ts
               PROVE  At(b, "done")'
    BY Zenon DEF QueuedInv
  <2>1. CASE InList(p, e)
    <3>1. At(b, "done")
      BY Zenon, <2>1 DEF IndInv, QueuedInv
    <3> QED
      BY Zenon, <3>1 DEF Moves, At
  <2>2. CASE e.ts = SessionOf[c] /\ (c \in Reusing \/ At(c, "done")')
    <3>1. b = c
      BY <2>2, ClientAssumption
    <3> QED
      BY Zenon, <2>2, <3>1
  <2> QED
    BY Zenon, <2>1, <2>2 DEF ListKept
<1>6. BehindInv'
  <2>1. ASSUME NEW b \in Client \ {c}
        PROVE  Behind(b)'
    <3>1. ProcessOf[SessionOf[b]] \in Process
      BY ClientAssumption
    <3>2. Behind(b)
      BY Zenon DEF IndInv, BehindInv
    <3> QED
      BY Zenon, <3>1, <3>2 DEF Behind, ListKept, Moves, GhostsKept, At
  <2> QED
    BY Zenon, <2>1 DEF BehindInv, Mine
<1>7. LateInv'
  BY Zenon DEF IndInv, LateInv, SeenSilent, GhostsKept, LateKept
<1> QED
  BY Zenon, <1>1, <1>4, <1>5, <1>6, <1>7 DEF IndInv, DocKept
-----------------------------------------------------------------------------
(* The parts that the steps share. *)
LEMMA NoneDelayed ==
  ASSUME TypeOK, late' \subseteq late
  PROVE  LateKept
  BY DEF TypeOK, LateKept, Writes

LEMMA DelayedFacts ==
  ASSUME TypeOK, NEW c \in Client, NEW write \in {"grabLock", "overtakeLock", "unlock"},
         Delayed(c, write), silent' = silent,
         write = "overtakeLock" =>
           /\ call[c].seen \in Session
           /\ ProcessOf[call[c].seen] \in silent \/ call[c].seen = SessionOf[c]
  PROVE  LateKept
<1>1. PICK w : w = Pending(c, write)
  OBVIOUS
<1>2. w \in Writes /\ w.by = c /\ w.write = write /\ w.seen = call[c].seen
  BY <1>1 DEF TypeOK, Pending, Writes
<1>3. SeenSilent(w)'
  BY Zenon, <1>2 DEF SeenSilent
<1>4. late' = late \cup {w} /\ late \subseteq Writes
  BY <1>1 DEF TypeOK, Delayed, Writes
<1> QED
  BY Zenon, <1>2, <1>3, <1>4 DEF LateKept

LEMMA GhostsFacts ==
  ASSUME TypeOK, LateKept, faults' = faults \/ Fault, ghosts' = ghosts
  PROVE  GhostsKept
<1>1. silent' = silent /\ forced' = forced /\ orphaned' = orphaned /\ undone' = undone
  BY DEF ghosts
<1>2. faults \in Nat /\ (faults' = faults \/ faults' = faults + 1) /\ faults' \in 0..MaxFaults
  BY ClientAssumption DEF TypeOK, Fault
<1> QED
  BY <1>1, <1>2 DEF GhostsKept, TypeOK

LEMMA FaultFacts ==
  ASSUME TypeOK, Fault
  PROVE  faults' > 0 /\ FaultInv'
  BY ClientAssumption DEF TypeOK, Fault, FaultInv

LEMMA NoFaultFacts ==
  ASSUME FaultInv, NEW c \in Client, faults' = faults, late' \subseteq late, unlockList' = unlockList,
         Moves(c), ~At(c, "undo")' \/ call' = call
  PROVE  FaultInv'
<1>1. \A b \in Client : At(b, "undo")' => At(b, "undo")
  BY Zenon DEF Moves, At
<1>2. \A p \in Process, e \in Entries : InList(p, e)' <=> InList(p, e)
  BY Zenon DEF InList
<1>3. late = {} => late' = {}
  OBVIOUS
<1> QED
  BY Zenon, <1>1, <1>2, <1>3 DEF FaultInv

(* A step of c that changes its program counter, and maybe its other locals. *)
LEMMA EntryFacts ==
  ASSUME TypeOK, NEW c \in Client, ~At(c, "done"), NEW r \in Calls, call' = [call EXCEPT ![c] = r]
  PROVE  Moves(c) /\ call'[c] = r
<1>1. call \in [Client -> Calls]
  BY DEF TypeOK, Calls, Pcs
<1>2. call' \in [Client -> Calls] /\ call'[c] = r /\ \A b \in Client \ {c} : call'[b] = call[b]
  BY <1>1
<1> QED
  BY Zenon, <1>2 DEF Moves

LEMMA GoMoves ==
  ASSUME TypeOK, NEW c \in Client, ~At(c, "done"), NEW to \in Pcs, Go(c, to)
  PROVE  Moves(c) /\ At(c, to)'
  BY Zenon, GoFacts DEF Moves

LEMMA LeaveMoves ==
  ASSUME TypeOK, NEW c \in Client, ~At(c, "done"), Leave(c)
  PROVE  Moves(c) /\ IF c \in Reusing THEN At(c, "idle")' ELSE At(c, "done")'
  BY Zenon, LeaveFacts DEF Moves

(* When a call of lock() is over and does not own the lock, or a migration's,  *)
(* nothing is left to show; so too before the call.                            *)
LEMMA LeftMine ==
  ASSUME NEW c \in Client, IF c \in Reusing THEN At(c, "idle")' ELSE At(c, "done")', Behind(c)'
  PROVE  Mine(c)' /\ ~At(c, "undo")'
<1>1. \A q \in {"look", "expire", "overtake", "held", "undo"} : ~At(c, q)'
  BY DEF At
<1>2. Attempt(c)'
  BY Zenon DEF Attempt
<1> QED
  BY <1>1, <1>2 DEF Mine, Seen

LEMMA NotOwnerBehind ==
  ASSUME NEW c \in Client, c \in Reusing \/ ~Owns(c)' \/ SessionOf[c] \in orphaned'
  PROVE  Behind(c)' /\ Attempt(c)'
  BY Zenon DEF Behind, Attempt

(* A step of a call that writes nothing, before the lock is held and after a   *)
(* failed attempt is undone.                                                   *)
LEMMA QuietStep ==
  ASSUME IndInv, NEW c \in Client, ~At(c, "undo"), ~At(c, "held"), ~At(c, "done"),
         doc' = doc, unlockList' = unlockList, late' = late, ghosts' = ghosts,
         faults' = faults \/ Fault, Moves(c), Seen(c)', ~At(c, "undo")', ~At(c, "held")'
  PROVE  IndInv'
<1>1. TypeOK /\ OwnDocInv /\ FaultInv /\ Attempt(c)
  BY Zenon DEF IndInv, AttemptInv
<1>2. DocKept /\ \A b \in Client : Owns(b)' <=> Owns(b)
  BY Zenon, <1>1, UnwrittenFacts
<1>3. ListKept(c)
  BY Zenon, <1>1, UnqueuedFacts
<1>4. orphaned' = orphaned /\ LateKept /\ late' \subseteq late
  BY <1>1, NoneDelayed DEF ghosts
<1>5. GhostsKept
  BY Zenon, <1>1, <1>4, GhostsFacts
<1>6. FaultInv'
  BY Zenon, <1>1, <1>4, FaultFacts, NoFaultFacts
<1>7. Behind(c)' /\ Attempt(c)'
  BY Zenon, <1>1, <1>2, <1>4 DEF Attempt, Behind
<1>8. Mine(c)'
  BY Zenon, <1>7 DEF Mine
<1> QED
  BY Zenon, <1>2, <1>3, <1>5, <1>6, <1>8, StepKept DEF Holds

LEMMA QuietLeave ==
  ASSUME IndInv, NEW c \in Client, ~At(c, "undo"), ~At(c, "held"), ~At(c, "done"),
         doc' = doc, unlockList' = unlockList, late' = late, ghosts' = ghosts,
         faults' = faults \/ Fault, Leave(c)
  PROVE  IndInv'
<1>1. Moves(c) /\ IF c \in Reusing THEN At(c, "idle")' ELSE At(c, "done")'
  BY Zenon, LeaveMoves DEF IndInv
<1>2. Seen(c)' /\ ~At(c, "undo")' /\ ~At(c, "held")'
  BY <1>1 DEF Seen, At
<1> QED
  BY Zenon, <1>1, <1>2, QuietStep

(* lockWithSessionID starts. *)
LEMMA LockWithSessionIDStep ==
  ASSUME IndInv, NEW c \in Client, LockWithSessionID(c)
  PROVE  IndInv'
<1> DEFINE r == [NoCall EXCEPT !.pc = "grab", !.calls = call[c].calls + 1]
<1>1. /\ At(c, "idle") /\ doc' = doc /\ unlockList' = unlockList /\ late' = late /\ faults' = faults
      /\ ghosts' = ghosts /\ call' = [call EXCEPT ![c] = r]
  BY DEF LockWithSessionID
<1>2. call[c].calls + 1 \in Nat /\ "grab" \in Pcs
  BY DEF IndInv, TypeOK, Pcs
<1>3. r \in Calls /\ r.pc = "grab"
  BY Zenon, <1>2, EntryTyped
<1>4. ~At(c, "undo") /\ ~At(c, "held") /\ ~At(c, "done")
  BY <1>1 DEF At
<1> HIDE DEF r
<1>5. Moves(c) /\ call'[c] = r
  BY Zenon, <1>1, <1>3, <1>4, EntryFacts DEF IndInv
<1>6. Seen(c)' /\ ~At(c, "undo")' /\ ~At(c, "held")'
  BY <1>3, <1>5 DEF Seen, At
<1> QED
  BY Zenon, <1>1, <1>4, <1>5, <1>6, QuietStep

(* grabLock answers. *)
LEMMA GrabLockStep ==
  ASSUME IndInv, NEW c \in Client, GrabLock(c)
  PROVE  IndInv'
<1> DEFINE free == doc[NameOf[c]].state = "UNLOCKED"
<1>1. /\ At(c, "grab") /\ doc' = Grabbed(c) /\ unlockList' = unlockList /\ late' = late
      /\ faults' = faults /\ ghosts' = ghosts /\ orphaned' = orphaned
      /\ IF free THEN Go(c, "held") ELSE Go(c, "look")
  BY DEF GrabLock, ghosts
<1>2. TypeOK /\ OwnDocInv /\ FaultInv /\ Attempt(c)
  BY Zenon DEF IndInv, AttemptInv
<1>3. ~At(c, "done") /\ "held" \in Pcs /\ "look" \in Pcs
  BY <1>1 DEF At, Pcs
<1>4. Moves(c) /\ IF free THEN At(c, "held")' ELSE At(c, "look")'
  BY Zenon, <1>1, <1>2, <1>3, GoMoves
<1>5. /\ DocKept
      /\ IF free THEN Owns(c)' ELSE doc' = doc
      /\ \A b \in Client \ {c} : Owns(b)' <=> Owns(b)
  BY Zenon, <1>1, <1>2, GrabbedFacts
<1>6. ListKept(c)
  BY <1>1, <1>2, UnqueuedFacts
<1>7. GhostsKept
  <2>1. LateKept
    BY <1>1, <1>2, NoneDelayed
  <2> QED
    BY Zenon, <1>1, <1>2, <2>1, GhostsFacts
<1>8. ~At(c, "undo")'
  BY <1>4 DEF At
<1>9. FaultInv'
  BY <1>1, <1>2, <1>4, <1>8, NoFaultFacts
<1>10. CASE free
  <2>1. Owns(c)' /\ At(c, "held")'
    BY Zenon, <1>4, <1>5, <1>10
  <2>2. Mine(c)'
    BY <2>1 DEF Mine, Seen, Attempt, Behind, Holds, At
  <2> QED
    BY Zenon, <1>4, <1>5, <1>6, <1>7, <1>9, <2>2, StepKept DEF Holds
<1>11. CASE ~free
  <2>1. doc' = doc /\ At(c, "look")'
    BY Zenon, <1>4, <1>5, <1>11
  <2>2. c \in Reusing \/ ~Owns(c)' \/ SessionOf[c] \in orphaned'
    BY <1>1, <1>2, <2>1 DEF Attempt, At, Owns, Locked
  <2>3. Behind(c)' /\ Attempt(c)'
    BY Zenon, <2>2, NotOwnerBehind
  <2>4. doc'[NameOf[c]] # Free
    BY <1>11, <2>1 DEF Free
  <2>5. Mine(c)'
    BY <2>1, <2>3, <2>4 DEF Mine, Seen, At
  <2> QED
    BY Zenon, <1>4, <1>5, <1>6, <1>7, <1>9, <2>5, StepKept DEF Holds
<1> QED
  BY <1>10, <1>11

(* grabLock fails: before its unlock the call may own the lock. *)
LEMMA GrabLockFailsStep ==
  ASSUME IndInv, NEW c \in Client, GrabLockFails(c)
  PROVE  IndInv'
<1>1. At(c, "grab") /\ Fault /\ ghosts' = ghosts /\ (doc' = doc \/ doc' = Grabbed(c))
      /\ (late' = late \/ Delayed(c, "grabLock"))
  BY DEF GrabLockFails
<1>2. TypeOK /\ OwnDocInv
  BY Zenon DEF IndInv
<1>3. ~At(c, "done") /\ NameOf[c] \in {NameOf[c], AnyName}
  BY <1>1 DEF At
<1>4. DocKept /\ \A b \in Client \ {c} : Owns(b)' <=> Owns(b)
  BY Zenon, <1>1, <1>2, GrabbedFacts, UnwrittenFacts
<1>5. GhostsKept
  <2>1. LateKept
    BY <1>1, <1>2, NoneDelayed, DelayedFacts DEF ghosts
  <2> QED
    BY Zenon, <1>1, <1>2, <2>1, GhostsFacts
<1>6. FaultInv'
  BY Zenon, <1>1, <1>2, FaultFacts
<1>7. CASE /\ call[c].retries < kMaxNumLockAcquireRetries
           /\ call' = [call EXCEPT ![c].pc = "undo", ![c].retries = @ + 1]
           /\ UNCHANGED unlockList
  <2> DEFINE r == [call[c] EXCEPT !.pc = "undo", !.retries = call[c].retries + 1]
  <2>1. call[c] \in Calls /\ call' = [call EXCEPT ![c] = r]
    BY <1>2, <1>7 DEF TypeOK, Calls, Pcs
  <2>2. call[c].retries + 1 \in 0..kMaxNumLockAcquireRetries
    BY <1>7, <2>1, ClientAssumption DEF Calls
  <2>3. r \in Calls /\ r.pc = "undo"
    BY <2>1, <2>2 DEF Calls, Pcs
  <2> HIDE DEF r
  <2>4. Moves(c) /\ At(c, "undo")'
    BY Zenon, <1>2, <1>3, <2>1, <2>3, EntryFacts DEF At
  <2>5. ListKept(c)
    BY <1>2, <1>7, UnqueuedFacts
  <2>6. Mine(c)'
    BY <2>4 DEF Mine, Seen, Attempt, Behind, At
  <2> QED
    BY Zenon, <1>4, <1>5, <1>6, <2>4, <2>5, <2>6, StepKept DEF Holds
<1>8. CASE QueueUnlock(c, NameOf[c]) /\ Leave(c)
  <2>1. Moves(c) /\ IF c \in Reusing THEN At(c, "idle")' ELSE At(c, "done")'
    BY Zenon, <1>2, <1>3, <1>8, LeaveMoves
  <2>2. ListKept(c) /\ Behind(c)'
    BY Zenon, <1>2, <1>3, <1>8, <2>1, QueuedFacts
  <2>3. Mine(c)'
    BY Zenon, <2>1, <2>2, LeftMine
  <2> QED
    BY Zenon, <1>4, <1>5, <1>6, <2>1, <2>2, <2>3, StepKept DEF Holds
<1> QED
  BY <1>7, <1>8 DEF GrabLockFails

(* The unlock between two attempts. *)
LEMMA UnlockBeforeRetryStep ==
  ASSUME IndInv, NEW c \in Client, UnlockBeforeRetry(c)
  PROVE  IndInv'
<1> DEFINE unlocked == Unlocked(SessionOf[c], NameOf[c])
<1>1. At(c, "undo") /\ ghosts' = ghosts /\ (doc' \in unlocked \/ doc' = doc)
      /\ (late' = late \/ Delayed(c, "unlock")) /\ (faults' = faults \/ Fault)
  BY DEF UnlockBeforeRetry
<1>2. TypeOK /\ OwnDocInv /\ FaultInv /\ ~At(c, "done") /\ NameOf[c] \in {NameOf[c], AnyName}
  BY <1>1 DEF IndInv, At
<1>3. DocKept /\ (\A b \in Client \ {c} : Owns(b)' <=> Owns(b))
      /\ (doc' \in unlocked /\ c \notin Reusing => ~Owns(c)')
  BY Zenon, <1>1, <1>2, UnlockedOfClient, UnwrittenFacts
<1>4. GhostsKept
  <2>1. LateKept
    BY <1>1, <1>2, NoneDelayed, DelayedFacts DEF ghosts
  <2> QED
    BY Zenon, <1>1, <1>2, <2>1, GhostsFacts
<1>5. faults' # 0 /\ FaultInv'
  <2>1. CASE Fault
    <3>1. faults' > 0 /\ FaultInv'
      BY Zenon, <1>2, <2>1, FaultFacts
    <3> QED
      BY <3>1
  <2>2. CASE faults' = faults
    BY <1>1, <1>2, <2>2 DEF FaultInv
  <2> QED
    BY Zenon, <1>1, <2>1, <2>2
<1>6. CASE /\ doc' \in unlocked /\ UNCHANGED unlockList
           /\ call' = [call EXCEPT ![c].pc = "grab"] \/ (c \notin Reusing /\ Leave(c))
  <2>1. ListKept(c)
    BY <1>2, <1>6, UnqueuedFacts
  <2>2. Behind(c)' /\ Attempt(c)'
    BY Zenon, <1>3, <1>6, NotOwnerBehind
  <2>3. CASE call' = [call EXCEPT ![c].pc = "grab"]
    <3> DEFINE r == [call[c] EXCEPT !.pc = "grab"]
    <3>1. call[c] \in Calls /\ call' = [call EXCEPT ![c] = r]
      BY <1>2, <2>3 DEF TypeOK, Calls, Pcs
    <3>2. r \in Calls /\ r.pc = "grab"
      BY <3>1 DEF Calls, Pcs
    <3> HIDE DEF r
    <3>3. Moves(c) /\ At(c, "grab")'
      BY Zenon, <1>2, <3>1, <3>2, EntryFacts DEF At
    <3>4. Mine(c)'
      BY <2>2, <3>3 DEF Mine, Seen, At
    <3> QED
      BY Zenon, <1>3, <1>4, <1>5, <2>1, <3>3, <3>4, StepKept DEF Holds
  <2>4. CASE Leave(c)
    <3>1. Moves(c) /\ IF c \in Reusing THEN At(c, "idle")' ELSE At(c, "done")'
      BY Zenon, <1>2, <2>4, LeaveMoves
    <3>2. Mine(c)'
      BY Zenon, <2>2, <3>1, LeftMine
    <3> QED
      BY Zenon, <1>3, <1>4, <1>5, <2>1, <3>1, <3>2, StepKept DEF Holds
  <2> QED
    BY <1>6, <2>3, <2>4
<1>7. CASE QueueUnlock(c, NameOf[c]) /\ Leave(c)
  <2>1. Moves(c) /\ IF c \in Reusing THEN At(c, "idle")' ELSE At(c, "done")'
    BY Zenon, <1>2, <1>7, LeaveMoves
  <2>2. ListKept(c) /\ Behind(c)'
    BY Zenon, <1>2, <1>7, <2>1, QueuedFacts
  <2>3. Mine(c)'
    BY Zenon, <2>1, <2>2, LeftMine
  <2> QED
    BY Zenon, <1>3, <1>4, <1>5, <2>1, <2>2, <2>3, StepKept DEF Holds
<1> QED
  BY <1>6, <1>7 DEF UnlockBeforeRetry

(* getLockByName finds the document whose lock was in the way. *)
LEMMA GetLockByNameStep ==
  ASSUME IndInv, NEW c \in Client, GetLockByName(c)
  PROVE  IndInv'
<1>1. At(c, "look") /\ doc' = doc /\ unlockList' = unlockList /\ late' = late /\ ghosts' = ghosts
  BY DEF GetLockByName
<1>2. ~At(c, "undo") /\ ~At(c, "held") /\ ~At(c, "done")
  BY <1>1 DEF At
<1>3. TypeOK /\ Seen(c) /\ NameOf[c] \in Name
  BY ClientAssumption DEF IndInv, SeenInv
<1>4. CASE call' = [call EXCEPT ![c].pc = "expire", ![c].seen = doc[NameOf[c]].ts] /\ faults' = faults
  <2> DEFINE r == [call[c] EXCEPT !.pc = "expire", !.seen = doc[NameOf[c]].ts]
  <2>1. call[c] \in Calls /\ call' = [call EXCEPT ![c] = r]
    BY <1>3, <1>4 DEF TypeOK, Calls, Pcs
  <2>2. doc[NameOf[c]].ts \in Session
    BY <1>1, <1>3 DEF TypeOK, Seen
  <2>3. r \in Calls /\ r.pc = "expire" /\ r.seen \in Session
    BY <2>1, <2>2 DEF Calls, Pcs
  <2> HIDE DEF r
  <2>4. Moves(c) /\ call'[c] = r
    BY Zenon, <1>2, <1>3, <2>1, <2>3, EntryFacts
  <2>5. Seen(c)' /\ ~At(c, "undo")' /\ ~At(c, "held")'
    BY <2>3, <2>4 DEF Seen, At
  <2> QED
    BY Zenon, <1>1, <1>2, <1>4, <2>4, <2>5, QuietStep
<1>5. CASE Fault /\ Leave(c)
  BY Zenon, <1>1, <1>2, <1>5, QuietLeave
<1> QED
  BY <1>4, <1>5 DEF GetLockByName

(* isLockExpired decides whether the lock is overtaken. *)
LEMMA CheckExpiredStep ==
  ASSUME IndInv, NEW c \in Client, CheckExpired(c)
  PROVE  IndInv'
<1>1. At(c, "expire") /\ doc' = doc /\ unlockList' = unlockList /\ late' = late /\ ghosts' = ghosts
      /\ silent' = silent
  BY DEF CheckExpired, ghosts
<1>2. ~At(c, "undo") /\ ~At(c, "held") /\ ~At(c, "done")
  BY <1>1 DEF At
<1>3. TypeOK /\ Seen(c)
  BY Zenon DEF IndInv, SeenInv
<1>4. CASE /\ \/ ProcessOf[call[c].seen] \in silent \/ call[c].seen = SessionOf[c]
           /\ call' = [call EXCEPT ![c].pc = "overtake"] /\ faults' = faults
  <2> DEFINE r == [call[c] EXCEPT !.pc = "overtake"]
  <2>1. call[c] \in Calls /\ call' = [call EXCEPT ![c] = r]
    BY <1>3, <1>4 DEF TypeOK, Calls, Pcs
  <2>2. r \in Calls /\ r.pc = "overtake" /\ r.seen = call[c].seen
    BY <2>1 DEF Calls, Pcs
  <2> HIDE DEF r
  <2>3. Moves(c) /\ call'[c] = r
    BY Zenon, <1>2, <1>3, <2>1, <2>2, EntryFacts
  <2>4. Seen(c)' /\ ~At(c, "undo")' /\ ~At(c, "held")'
    BY <1>1, <1>3, <1>4, <2>2, <2>3 DEF Seen, At
  <2> QED
    BY Zenon, <1>1, <1>2, <1>4, <2>3, <2>4, QuietStep
<1>5. CASE Go(c, "busy") /\ faults' = faults
  <2>1. "busy" \in Pcs
    BY DEF Pcs
  <2>2. Moves(c) /\ At(c, "busy")'
    BY Zenon, <1>2, <1>3, <1>5, <2>1, GoMoves
  <2>3. Seen(c)' /\ ~At(c, "undo")' /\ ~At(c, "held")'
    BY <2>2 DEF Seen, At
  <2> QED
    BY Zenon, <1>1, <1>2, <1>5, <2>2, <2>3, QuietStep
<1>6. CASE Fault /\ Leave(c)
  BY Zenon, <1>1, <1>2, <1>6, QuietLeave
<1> QED
  BY <1>4, <1>5, <1>6 DEF CheckExpired

(* The lock is busy. *)
LEMMA RetryOrTimeOutStep ==
  ASSUME IndInv, NEW c \in Client, RetryOrTimeOut(c)
  PROVE  IndInv'
<1>1. At(c, "busy") /\ doc' = doc /\ unlockList' = unlockList /\ late' = late /\ ghosts' = ghosts
      /\ faults' = faults /\ (Go(c, "grab") \/ Leave(c))
  BY DEF RetryOrTimeOut
<1>2. ~At(c, "undo") /\ ~At(c, "held") /\ ~At(c, "done")
  BY <1>1 DEF At
<1>3. CASE Go(c, "grab")
  <2>1. "grab" \in Pcs
    BY DEF Pcs
  <2>2. Moves(c) /\ At(c, "grab")'
    BY Zenon, <1>2, <1>3, <2>1, GoMoves DEF IndInv
  <2>3. Seen(c)' /\ ~At(c, "undo")' /\ ~At(c, "held")'
    BY <2>2 DEF Seen, At
  <2> QED
    BY Zenon, <1>1, <1>2, <2>2, <2>3, QuietStep
<1>4. CASE Leave(c)
  BY Zenon, <1>1, <1>2, <1>4, QuietLeave
<1> QED
  BY Zenon, <1>1, <1>3, <1>4

(* overtakeLock: a client that loses its lock by it was seen to be silent. *)
LEMMA OvertakenFacts ==
  ASSUME TypeOK, OwnDocInv, NEW c \in Client, NEW seen \in Session,
         ProcessOf[seen] \in silent \/ seen = SessionOf[c], silent' = silent,
         Overtakes(c, seen), Overtaken(c)
  PROVE  /\ DocKept /\ Owns(c)' /\ forced \subseteq forced' /\ forced' \subseteq Session
         /\ \A b \in Client \ {c} : (Owns(b)' => Owns(b)) /\ (Owns(b) => Holds(b)')
<1> DEFINE old == doc[NameOf[c]]
<1>1. /\ doc' = [doc EXCEPT ![NameOf[c]] = Locked(c)]
      /\ forced' = IF old.state = "LOCKED" /\ old.ts # SessionOf[c]
                     THEN forced \cup {old.ts} ELSE forced
  BY DEF Overtaken
<1>2. /\ DocKept /\ Owns(c)'
      /\ \A b \in Client \ {c} : /\ Owns(b)' => Owns(b)
                                 /\ Owns(b) /\ NameOf[b] # NameOf[c] => Owns(b)'
  BY Zenon, <1>1, LockedFacts
<1>3. ASSUME NEW b \in Client \ {c}, Owns(b), NameOf[b] = NameOf[c]
      PROVE  Holds(b)'
  <2>1. old.state = "LOCKED" /\ old.ts = SessionOf[b]
    BY <1>3 DEF Owns, Locked
  <2>2. SessionOf[b] # SessionOf[c]
    BY Zenon, <1>3, SessionFacts
  <2>3. SessionOf[b] \in forced'
    BY <1>1, <2>1, <2>2
  <2>4. seen = SessionOf[b]
    BY <2>1 DEF Overtakes
  <2>5. ProcessOf[SessionOf[b]] \in silent'
    BY Zenon, <2>2, <2>4
  <2> QED
    BY Zenon, <2>3, <2>5 DEF Holds
<1>4. forced \subseteq forced' /\ forced' \subseteq Session
  <2>1. CASE forced' = forced
    BY <2>1 DEF TypeOK
  <2>2. CASE forced' = forced \cup {old.ts} /\ old.state = "LOCKED"
    <3>1. NameOf[c] \in Name
      BY ClientAssumption
    <3>2. old.ts \in Session
      BY <2>2, <3>1 DEF TypeOK, Free
    <3> QED
      BY <2>2, <3>2 DEF TypeOK
  <2> QED
    BY <1>1, <2>1, <2>2
<1> QED
  BY Zenon, <1>2, <1>3, <1>4 DEF Holds

LEMMA OvertakeLockStep ==
  ASSUME IndInv, NEW c \in Client, OvertakeLock(c)
  PROVE  IndInv'
<1> DEFINE Taken == Overtakes(c, call[c].seen) /\ Overtaken(c)
<1>1. /\ At(c, "overtake") /\ silent' = silent /\ orphaned' = orphaned /\ undone' = undone
      /\ (doc' = doc /\ forced' = forced) \/ Taken
      /\ late' = late \/ Delayed(c, "overtakeLock")
      /\ \/ Taken /\ Go(c, "held") /\ unlockList' = unlockList /\ late' = late /\ faults' = faults
         \/ Go(c, "busy") /\ doc' = doc /\ forced' = forced /\ unlockList' = unlockList
              /\ late' = late /\ faults' = faults
         \/ Fault /\ QueueUnlock(c, AnyName) /\ Leave(c)
  BY DEF OvertakeLock
<1>2. TypeOK /\ OwnDocInv /\ FaultInv /\ Attempt(c) /\ Seen(c) /\ NameOf[c] \in Name
  BY ClientAssumption DEF IndInv, AttemptInv, SeenInv
<1>3. ~At(c, "undo") /\ ~At(c, "held") /\ ~At(c, "done") /\ AnyName \in {NameOf[c], AnyName}
      /\ "held" \in Pcs /\ "busy" \in Pcs
  BY <1>1 DEF At, Pcs
<1>4. call[c].seen \in Session /\ (ProcessOf[call[c].seen] \in silent \/ call[c].seen = SessionOf[c])
  BY Zenon, <1>1, <1>2 DEF Seen
<1>5. /\ DocKept /\ (Taken => Owns(c)') /\ forced \subseteq forced' /\ forced' \subseteq Session
      /\ \A b \in Client \ {c} : (Owns(b)' => Owns(b)) /\ (Owns(b) => Holds(b)')
  <2>1. CASE Taken
    BY Zenon, <1>1, <1>2, <1>4, <2>1, OvertakenFacts
  <2>2. CASE doc' = doc /\ forced' = forced /\ ~Taken
    <3>1. forced \subseteq forced' /\ forced' \subseteq Session
      BY <1>2, <2>2 DEF TypeOK
    <3> HIDE DEF Taken
    <3> QED
      BY Zenon, <1>2, <2>2, <3>1, UnwrittenFacts DEF Holds
  <2> QED
    BY Zenon, <1>1, <2>1, <2>2
<1>10. LateKept
  BY <1>1, <1>2, <1>4, NoneDelayed, DelayedFacts
<1>11. GhostsKept
  <2>1. faults \in Nat /\ (faults' = faults \/ faults' = faults + 1) /\ faults' \in 0..MaxFaults
    BY <1>1, <1>2, ClientAssumption DEF TypeOK, Fault
  <2> QED
    BY <1>1, <1>2, <1>5, <1>10, <2>1 DEF GhostsKept, TypeOK
<1> HIDE DEF Taken
<1>6. CASE Taken /\ Go(c, "held") /\ unlockList' = unlockList /\ late' = late /\ faults' = faults
  <2>1. Moves(c) /\ At(c, "held")'
    BY Zenon, <1>2, <1>3, <1>6, GoMoves
  <2>2. Owns(c)'
    BY Zenon, <1>5, <1>6
  <2>3. ListKept(c)
    BY Zenon, <1>2, <1>6, UnqueuedFacts
  <2>4. Mine(c)' /\ ~At(c, "undo")'
    BY <2>1, <2>2 DEF Mine, Seen, Attempt, Behind, Holds, At
  <2>5. FaultInv'
    BY <1>1, <1>2, <1>6, <2>1, <2>4, NoFaultFacts
  <2> QED
    BY Zenon, <1>5, <1>11, <2>1, <2>3, <2>4, <2>5, StepKept
<1>7. CASE Go(c, "busy") /\ doc' = doc /\ forced' = forced /\ unlockList' = unlockList
             /\ late' = late /\ faults' = faults
  <2>1. Moves(c) /\ At(c, "busy")'
    BY Zenon, <1>2, <1>3, <1>7, GoMoves
  <2>2. Seen(c)' /\ ~At(c, "undo")' /\ ~At(c, "held")'
    BY <2>1 DEF Seen, At
  <2>3. ghosts' = ghosts
    BY <1>1, <1>7 DEF ghosts
  <2> QED
    BY Zenon, <1>1, <1>3, <1>7, <2>1, <2>2, <2>3, QuietStep
<1>8. CASE Fault /\ QueueUnlock(c, AnyName) /\ Leave(c)
  <2>1. Moves(c) /\ IF c \in Reusing THEN At(c, "idle")' ELSE At(c, "done")'
    BY Zenon, <1>2, <1>3, <1>8, LeaveMoves
  <2>2. ListKept(c) /\ Behind(c)'
    BY Zenon, <1>2, <1>3, <1>8, <2>1, QueuedFacts
  <2>3. Mine(c)'
    BY Zenon, <2>1, <2>2, LeftMine
  <2>4. FaultInv'
    BY Zenon, <1>2, <1>8, FaultFacts
  <2> QED
    BY Zenon, <1>5, <1>11, <2>1, <2>2, <2>3, <2>4, StepKept
<1> QED
  BY Zenon, <1>1, <1>6, <1>7, <1>8

(* unlock of a held lock. *)
LEMMA UnlockStep ==
  ASSUME IndInv, NEW c \in Client, Unlock(c)
  PROVE  IndInv'
<1>1. PICK name \in {NameOf[c], AnyName} : name = IF c \in Reusing THEN NameOf[c] ELSE AnyName
  OBVIOUS
<1> DEFINE unlocked == Unlocked(SessionOf[c], name)
<1>2. /\ At(c, "held") /\ Leave(c) /\ late' = late /\ ghosts' = ghosts
      /\ \/ doc' \in unlocked /\ unlockList' = unlockList /\ faults' = faults
         \/ Fault /\ doc' \in unlocked \cup {doc} /\ QueueUnlock(c, name)
  BY <1>1 DEF Unlock
<1>3. TypeOK /\ OwnDocInv /\ FaultInv
  BY Zenon DEF IndInv
<1>4. ~At(c, "done") /\ (c \in Reusing => name = NameOf[c])
  BY <1>1, <1>2 DEF At
<1>5. Moves(c) /\ IF c \in Reusing THEN At(c, "idle")' ELSE At(c, "done")'
  BY Zenon, <1>2, <1>3, <1>4, LeaveMoves
<1>6. DocKept /\ (\A b \in Client \ {c} : Owns(b)' <=> Owns(b))
      /\ (doc' \in unlocked /\ c \notin Reusing => ~Owns(c)')
  <2>1. CASE doc' \in unlocked
    BY Zenon, <1>3, <1>4, <2>1, UnlockedOfClient
  <2>2. CASE doc' = doc /\ doc' \notin unlocked
    BY Zenon, <1>3, <2>2, UnwrittenFacts
  <2> QED
    BY <1>2, <2>1, <2>2
<1>7. late' \subseteq late /\ LateKept
  BY <1>2, <1>3, NoneDelayed
<1>8. GhostsKept
  BY Zenon, <1>2, <1>3, <1>7, GhostsFacts
<1>9. CASE doc' \in unlocked /\ unlockList' = unlockList /\ faults' = faults
  <2>1. ListKept(c)
    BY Zenon, <1>3, <1>9, UnqueuedFacts
  <2>2. Behind(c)'
    BY Zenon, <1>6, <1>9, NotOwnerBehind
  <2>3. Mine(c)' /\ ~At(c, "undo")'
    BY Zenon, <1>5, <2>2, LeftMine
  <2>4. FaultInv'
    BY Zenon, <1>3, <1>5, <1>7, <1>9, <2>3, NoFaultFacts
  <2> QED
    BY Zenon, <1>5, <1>6, <1>8, <2>1, <2>3, <2>4, StepKept DEF Holds
<1>10. CASE Fault /\ QueueUnlock(c, name)
  <2>1. ListKept(c) /\ Behind(c)'
    BY Zenon, <1>3, <1>5, <1>10, QueuedFacts
  <2>2. Mine(c)'
    BY Zenon, <1>5, <2>1, LeftMine
  <2>3. FaultInv'
    BY Zenon, <1>3, <1>10, FaultFacts
  <2> QED
    BY Zenon, <1>5, <1>6, <1>8, <2>1, <2>2, <2>3, StepKept DEF Holds
<1> QED
  BY Zenon, <1>2, <1>9, <1>10

(* A write that arrives late: the call of its client may be anywhere. *)
LEMMA LateMoves ==
  ASSUME TypeOK, NEW c \in Client, call' = call
  PROVE  Moves(c)
  BY DEF TypeOK, Moves, Calls, Pcs, At

LEMMA UnlockQueued ==
  ASSUME TypeOK, NEW c \in Client
  PROVE  UnlockIsQueued(c) <=>
           \E e \in Entries : /\ InList(ProcessOf[SessionOf[c]], e)
                              /\ e.ts = SessionOf[c] /\ e.name \in {NameOf[c], AnyName}
<1> DEFINE list == unlockList[ProcessOf[SessionOf[c]]]
<1>1. list \in Seq(Entries)
  BY ClientAssumption DEF TypeOK, Entries
<1> HIDE DEF list
<1>2. \A i \in DOMAIN list : list[i] \in Entries
  BY <1>1
<1> QED
  BY Zenon, <1>2 DEF UnlockIsQueued, InList, list

(* A grabLock or an overtakeLock that comes late locks for c: either no unlock *)
(* is queued, and the session is orphaned, or one is, and the call is over.    *)
LEMMA LateLockStep ==
  ASSUME IndInv, NEW c \in Client, DocKept, Owns(c) => Owns(c)',
         \A b \in Client \ {c} : (Owns(b)' => Owns(b)) /\ (Owns(b) => Holds(b)'),
         LockedLate(c), late' \subseteq late, forced \subseteq forced', forced' \subseteq Session,
         unlockList' = unlockList, call' = call, faults' = faults,
         silent' = silent, undone' = undone
  PROVE  IndInv'
<1>1. TypeOK /\ OwnDocInv /\ QueuedInv /\ FaultInv /\ Seen(c) /\ Attempt(c) /\ Behind(c)
      /\ (At(c, "held") => Holds(c))
  BY Zenon DEF IndInv, SeenInv, AttemptInv, BehindInv, HolderIsOwner, Holds
<1>2. ListKept(c) /\ Moves(c) /\ SessionOf[c] \in Session /\ NameOf[c] \in Name /\ LateKept
      /\ ProcessOf[SessionOf[c]] \in Process
  BY <1>1, UnqueuedFacts, LateMoves, NoneDelayed, ClientAssumption
<1>3. orphaned' = IF doc' = doc \/ UnlockIsQueued(c) THEN orphaned ELSE orphaned \cup {SessionOf[c]}
  BY Zenon DEF LockedLate
<1>4. GhostsKept
  <2>1. orphaned \subseteq orphaned' /\ orphaned' \subseteq Session
    BY <1>1, <1>2, <1>3 DEF TypeOK
  <2>2. faults \in Nat /\ faults' \in 0..MaxFaults
    BY <1>1, ClientAssumption DEF TypeOK
  <2> QED
    BY <1>1, <1>2, <2>1, <2>2 DEF GhostsKept, TypeOK
<1>5. FaultInv'
  BY <1>1, <1>2, NoFaultFacts
<1> DEFINE Queued(e) == /\ InList(ProcessOf[SessionOf[c]], e)
                        /\ e.ts = SessionOf[c] /\ e.name \in {NameOf[c], AnyName}
<1>6. Owns(c)' => \/ Owns(c) \/ SessionOf[c] \in orphaned'
                  \/ \E e \in Entries : Queued(e)
  <2>1. CASE doc' = doc
    BY Zenon, <1>1, <2>1, UnwrittenFacts
  <2>2. CASE doc' # doc /\ UnlockIsQueued(c)
    BY Zenon, <1>1, <2>2, UnlockQueued
  <2>3. CASE doc' # doc /\ ~UnlockIsQueued(c)
    BY <1>3, <2>3
  <2> QED
    BY Zenon, <2>1, <2>2, <2>3
<1>7. c \notin Reusing /\ (\E e \in Entries : Queued(e)) => At(c, "done")
  BY Zenon, <1>1, <1>2 DEF QueuedInv
<1>8. Mine(c)'
  <2>1. Seen(c)'
    BY Zenon, <1>1, <1>2 DEF Seen, At, DocKept
  <2>2. Attempt(c)' /\ (At(c, "held") => Holds(c))'
    BY Zenon, <1>1, <1>4, <1>6, <1>7 DEF Attempt, Holds, At, GhostsKept
  <2>3. Behind(c)'
    BY Zenon, <1>1, <1>4, <1>6 DEF Behind, InList, At, GhostsKept
  <2> QED
    BY Zenon, <2>1, <2>2, <2>3 DEF Mine
<1> QED
  BY Zenon, <1>2, <1>4, <1>5, <1>8, StepKept

LEMMA LateGrabLockStep ==
  ASSUME IndInv, NEW c \in Client, LateGrabLock(c)
  PROVE  IndInv'
<1>1. /\ doc' = Grabbed(c) /\ late' \subseteq late /\ LockedLate(c)
      /\ unlockList' = unlockList /\ call' = call /\ faults' = faults
      /\ silent' = silent /\ forced' = forced /\ undone' = undone
  BY DEF LateGrabLock, Arrives
<1>2. TypeOK /\ OwnDocInv
  BY Zenon DEF IndInv
<1>3. /\ DocKept
      /\ IF doc[NameOf[c]].state = "UNLOCKED" THEN Owns(c)' ELSE doc' = doc
      /\ \A b \in Client \ {c} : Owns(b)' <=> Owns(b)
  BY Zenon, <1>1, <1>2, GrabbedFacts
<1>4. Owns(c) => Owns(c)'
  BY Zenon, <1>2, <1>3, UnwrittenFacts
<1>5. forced \subseteq forced' /\ forced' \subseteq Session
  BY <1>1, <1>2 DEF TypeOK
<1> QED
  BY Zenon, <1>1, <1>3, <1>4, <1>5, LateLockStep DEF Holds

LEMMA LateOvertakeLockStep ==
  ASSUME IndInv, NEW c \in Client, LateOvertakeLock(c)
  PROVE  IndInv'
<1>1. /\ late' \subseteq late /\ LockedLate(c) /\ unlockList' = unlockList /\ call' = call
      /\ faults' = faults /\ silent' = silent /\ undone' = undone
  BY DEF LateOvertakeLock, Arrives
<1>2. TypeOK /\ OwnDocInv /\ LateInv
  BY Zenon DEF IndInv
<1>3. PICK w \in late : /\ w.by = c /\ w.write = "overtakeLock"
                        /\ \/ Overtakes(c, w.seen) /\ Overtaken(c)
                           \/ doc' = doc /\ forced' = forced
  BY DEF LateOvertakeLock, Arrives
<1>4. w.seen \in Session /\ (ProcessOf[w.seen] \in silent \/ w.seen = SessionOf[c])
  BY Zenon, <1>2, <1>3 DEF LateInv, SeenSilent
<1>5. /\ DocKept /\ (Owns(c) => Owns(c)') /\ forced \subseteq forced' /\ forced' \subseteq Session
      /\ \A b \in Client \ {c} : (Owns(b)' => Owns(b)) /\ (Owns(b) => Holds(b)')
  <2>1. CASE Overtakes(c, w.seen) /\ Overtaken(c)
    BY Zenon, <1>1, <1>2, <1>4, <2>1, OvertakenFacts
  <2>2. CASE doc' = doc /\ forced' = forced
    <3>1. forced \subseteq forced' /\ forced' \subseteq Session
      BY <1>2, <2>2 DEF TypeOK
    <3> QED
      BY Zenon, <1>2, <2>2, <3>1, UnwrittenFacts DEF Holds
  <2> QED
    BY Zenon, <1>3, <2>1, <2>2
<1> QED
  BY Zenon, <1>1, <1>5, LateLockStep

LEMMA LateUnlockStep ==
  ASSUME IndInv, NEW c \in Client, LateUnlock(c)
  PROVE  IndInv'
<1>1. /\ doc' \in Unlocked(SessionOf[c], NameOf[c]) /\ late' \subseteq late
      /\ undone' = IF doc' = doc THEN undone ELSE undone \cup {SessionOf[c]}
      /\ unlockList' = unlockList /\ call' = call /\ faults' = faults
      /\ silent' = silent /\ forced' = forced /\ orphaned' = orphaned
  BY DEF LateUnlock, Arrives
<1>2. TypeOK /\ OwnDocInv /\ FaultInv /\ Seen(c) /\ Attempt(c) /\ Behind(c)
      /\ (At(c, "held") => Holds(c)) /\ NameOf[c] \in {NameOf[c], AnyName}
  BY DEF IndInv, SeenInv, AttemptInv, BehindInv, HolderIsOwner, Holds
<1>3. /\ DocKept /\ (Owns(c)' => Owns(c))
      /\ \A b \in Client \ {c} : Owns(b)' <=> Owns(b)
  BY Zenon, <1>1, <1>2, UnlockedOfClient
<1>4. ListKept(c) /\ Moves(c) /\ SessionOf[c] \in Session /\ NameOf[c] \in Name /\ LateKept
  BY <1>1, <1>2, UnqueuedFacts, LateMoves, NoneDelayed, ClientAssumption
<1>5. GhostsKept
  <2>1. undone \subseteq undone' /\ undone' \subseteq Session
    BY <1>1, <1>2, <1>4 DEF TypeOK
  <2>2. faults \in Nat /\ faults' \in 0..MaxFaults
    BY <1>1, <1>2, ClientAssumption DEF TypeOK
  <2> QED
    BY <1>1, <1>2, <1>4, <2>1, <2>2 DEF GhostsKept, TypeOK
<1>6. FaultInv'
  BY <1>1, <1>2, <1>4, NoFaultFacts
<1>7. Owns(c) => Owns(c)' \/ SessionOf[c] \in undone'
  <2>1. CASE doc' = doc
    BY Zenon, <1>2, <2>1, UnwrittenFacts
  <2>2. CASE doc' # doc
    BY <1>1, <2>2
  <2> QED
    BY Zenon, <2>1, <2>2
<1>8. Mine(c)'
  <2>1. Seen(c)'
    BY Zenon, <1>1, <1>2, <1>3, <1>4 DEF Seen, At, DocKept
  <2>2. Attempt(c)' /\ (At(c, "held") => Holds(c))'
    BY Zenon, <1>1, <1>2, <1>3, <1>5, <1>7 DEF Attempt, Holds, At, GhostsKept
  <2>3. Behind(c)'
    BY Zenon, <1>1, <1>2, <1>3 DEF Behind, InList, At
  <2> QED
    BY Zenon, <2>1, <2>2, <2>3 DEF Mine
<1> QED
  BY Zenon, <1>3, <1>4, <1>5, <1>6, <1>8, StepKept DEF Holds
-----------------------------------------------------------------------------
(* The pinger sends the unlock e of its list, which stays there unless the     *)
(* unlock took effect.  No holder suffers: an unlock of a call of lock() is    *)
(* queued only when the call is over.                                          *)
LEMMA PingerStep ==
  ASSUME IndInv, NEW p \in Process, NEW e \in Entries, InList(p, e),
         doc' \in Unlocked(e.ts, e.name) \/ doc' = doc,
         unlockList' \in [Process -> Seq(Entries)],
         \A q \in Process, x \in Entries :
           /\ InList(q, x)' => InList(q, x)
           /\ InList(q, x) => InList(q, x)' \/ (x = e /\ doc' \in Unlocked(e.ts, e.name)),
         call' = call, late' = late, faults' = faults, ghosts' = ghosts
  PROVE  IndInv'
<1>1. TypeOK /\ SeenInv /\ QueuedInv /\ OwnDocInv /\ AttemptInv /\ FaultInv /\ BehindInv /\ HolderIsOwner
  BY Zenon DEF IndInv
<1>2. silent' = silent /\ forced' = forced /\ orphaned' = orphaned /\ undone' = undone
  BY DEF ghosts
<1>3. e.ts \in Session /\ e.name \in Name \cup {AnyName}
  BY DEF Entries
<1>4. /\ DocKept
      /\ \A b \in Client : /\ Owns(b)' => Owns(b)
                           /\ Owns(b) => Owns(b)' \/ SessionOf[b] = e.ts
      /\ doc' \in Unlocked(e.ts, e.name) =>
           \A b \in Client : b \notin Reusing /\ SessionOf[b] = e.ts
                               /\ e.name \in {NameOf[b], AnyName} => ~Owns(b)'
  <2>1. CASE doc' \in Unlocked(e.ts, e.name)
    BY Zenon, <1>1, <1>3, <2>1, UnlockedFacts
  <2>2. CASE doc' = doc /\ doc' \notin Unlocked(e.ts, e.name)
    BY Zenon, <1>1, <2>2, UnwrittenFacts
  <2> QED
    BY Zenon, <2>1, <2>2
<1>5. TypeOK'
  BY <1>1, <1>2, <1>4 DEF TypeOK, DocKept, Docs, Entries
<1>6. SeenInv'
  BY Zenon, <1>1, <1>2, <1>4, ClientAssumption DEF SeenInv, Seen, At, DocKept
<1>7. QueuedInv'
  BY Zenon, <1>1 DEF QueuedInv, At
<1>8. AttemptInv'
  BY Zenon, <1>1, <1>2, <1>4 DEF AttemptInv, Attempt, At
<1>9. FaultInv'
  BY Zenon, <1>1 DEF FaultInv, At
<1>10. BehindInv'
  <2> SUFFICES ASSUME NEW b \in Client, Behind(b),
                      b \notin Reusing, At(b, "done")', Owns(b)', SessionOf[b] \notin orphaned'
               PROVE  \E x \in Entries : /\ InList(ProcessOf[SessionOf[b]], x)'
                                         /\ x.ts = SessionOf[b] /\ x.name \in {NameOf[b], AnyName}
    BY Zenon, <1>1 DEF BehindInv, Behind
  <2>1. PICK x \in Entries : /\ InList(ProcessOf[SessionOf[b]], x)
                             /\ x.ts = SessionOf[b] /\ x.name \in {NameOf[b], AnyName}
    BY Zenon, <1>2, <1>4 DEF Behind, At
  <2>2. ProcessOf[SessionOf[b]] \in Process
    BY ClientAssumption
  <2> QED
    BY Zenon, <1>4, <2>1, <2>2
<1>11. HolderIsOwner'
  <2> SUFFICES ASSUME NEW b \in Client, At(b, "held")'
               PROVE  Holds(b)'
    BY Zenon DEF HolderIsOwner, Holds
  <2>1. At(b, "held") /\ Holds(b)
    BY Zenon, <1>1 DEF HolderIsOwner, Holds, At
  <2>2. CASE Owns(b) /\ ~Owns(b)'
    <3>1. SessionOf[b] = e.ts /\ ~At(b, "done")
      BY <1>4, <2>1, <2>2 DEF At
    <3>2. b \in Reusing
      BY Zenon, <1>1, <3>1 DEF QueuedInv
    <3>3. faults # 0
      BY Zenon, <1>1 DEF FaultInv
    <3>4. faults' > 0
      BY <1>1, <3>3 DEF TypeOK
    <3> QED
      BY Zenon, <3>2, <3>4 DEF Holds
  <2> QED
    BY Zenon, <1>2, <2>1, <2>2 DEF Holds
<1>12. LateInv'
  BY Zenon, <1>2 DEF IndInv, LateInv, SeenSilent
<1> QED
  BY Zenon, <1>4, <1>5, <1>6, <1>7, <1>8, <1>9, <1>10, <1>11, <1>12 DEF IndInv, DocKept

LEMMA UnlockNextStep ==
  ASSUME IndInv, NEW p \in Process, UnlockNext(p) \/ UnlockNextFails(p)
  PROVE  IndInv'
<1> DEFINE e == Head(unlockList[p])
<1>1. /\ unlockList[p] # <<>> /\ call' = call /\ late' = late /\ faults' = faults /\ ghosts' = ghosts
      /\ doc' \in Unlocked(e.ts, e.name) \/ doc' = doc
      /\ \/ /\ unlockList' = [unlockList EXCEPT ![p] = Tail(@)]
            /\ doc' \in Unlocked(e.ts, e.name)
         \/ unlockList' = [unlockList EXCEPT ![p] = Append(Tail(@), Head(@))]
  BY DEF UnlockNext, UnlockNextFails
<1>2. TypeOK /\ unlockList[p] \in Seq(Entries)
  BY DEF IndInv, TypeOK, Entries
<1>3. e \in Entries /\ InList(p, e)
  BY Zenon, <1>1, <1>2, HeadFacts DEF InList
<1>4. CASE /\ unlockList' = [unlockList EXCEPT ![p] = Tail(@)]
           /\ doc' \in Unlocked(e.ts, e.name)
  <2>1. /\ unlockList' \in [Process -> Seq(Entries)]
        /\ \A q \in Process, x \in Entries :
             /\ InList(q, x)' => InList(q, x)
             /\ InList(q, x) => InList(q, x)' \/ (q = p /\ x = e)
    BY Zenon, <1>1, <1>2, <1>4, SentFacts
  <2> HIDE DEF e
  <2> QED
    BY Zenon, <1>1, <1>3, <1>4, <2>1, PingerStep
<1>5. CASE unlockList' = [unlockList EXCEPT ![p] = Append(Tail(@), Head(@))]
  <2>1. /\ unlockList' \in [Process -> Seq(Entries)]
        /\ \A q \in Process, x \in Entries : InList(q, x)' <=> InList(q, x)
    BY Zenon, <1>1, <1>2, <1>5, QueuedAgainFacts
  <2> HIDE DEF e
  <2> QED
    BY Zenon, <1>1, <1>3, <2>1, PingerStep
<1> QED
  BY Zenon, <1>1, <1>4, <1>5

(* A process falls silent, or nothing happens. *)
LEMMA SilentStep ==
  ASSUME IndInv, silent \subseteq silent', silent' \subseteq Process, doc' = doc,
         unlockList' = unlockList, call' = call, late' = late, faults' = faults,
         forced' = forced, orphaned' = orphaned, undone' = undone
  PROVE  IndInv'
<1>1. DocKept /\ (\A b \in Client : Owns(b)' <=> Owns(b))
      /\ \A q \in Process, x \in Entries : InList(q, x)' <=> InList(q, x)
  BY Zenon, UnwrittenFacts DEF IndInv, InList
<1>2. TypeOK'
  BY DEF IndInv, TypeOK
<1>3. SeenInv' /\ LateInv'
  BY Zenon DEF IndInv, SeenInv, Seen, LateInv, SeenSilent, At
<1>4. QueuedInv' /\ FaultInv'
  BY Zenon, <1>1 DEF IndInv, QueuedInv, FaultInv, At
<1>5. AttemptInv'
  BY Zenon, <1>1 DEF IndInv, AttemptInv, Attempt, At
<1>6. BehindInv'
  BY Zenon, <1>1 DEF IndInv, BehindInv, Behind, InList, At
<1>7. HolderIsOwner'
  BY Zenon, <1>1 DEF IndInv, HolderIsOwner, At
<1> QED
  BY Zenon, <1>1, <1>2, <1>3, <1>4, <1>5, <1>6, <1>7 DEF IndInv, DocKept
-----------------------------------------------------------------------------
LEMMA InitIndInv == Init => IndInv
<1> SUFFICES ASSUME Init
             PROVE  IndInv
  OBVIOUS
<1>1. /\ \A n \in Name : doc[n] = Free
      /\ \A p \in Process : unlockList[p] = <<>>
      /\ \A c \in Client : call[c] = NoCall /\ NameOf[c] \in Name
      /\ late = {} /\ faults = 0
  BY ClientAssumption DEF Init
<1>2. TypeOK
  <2>1. NoCall \in Calls
    BY ClientAssumption DEF NoCall, Calls, Pcs
  <2>2. doc \in [Name -> Docs] /\ unlockList \in [Process -> Seq(Entries)] /\ call \in [Client -> Calls]
    BY <2>1 DEF Init, Docs
  <2>3. faults \in 0..MaxFaults
    BY <1>1, ClientAssumption
  <2> QED
    BY <2>2, <2>3 DEF TypeOK, Init, Docs, Calls, Pcs, Entries
<1>3. \A c \in Client : At(c, "idle")
  <2>1. NoCall.pc = "idle"
    BY DEF NoCall
  <2> QED
    BY Zenon, <1>1, <2>1 DEF At
<1>4. \A c \in Client : ~Owns(c)
  <2>1. \A c \in Client : Free # Locked(c)
    BY DEF Free, Locked
  <2> QED
    BY Zenon, <1>1, <2>1 DEF Owns
<1>5. SeenInv /\ HolderIsOwner
  BY <1>3 DEF SeenInv, Seen, HolderIsOwner, At
<1>6. \A p \in Process, e \in Entries : ~InList(p, e)
  BY <1>1 DEF InList
<1>7. \A c \in Client : ~At(c, "undo")
  BY <1>3 DEF At
<1>8. QueuedInv /\ FaultInv
  BY Zenon, <1>1, <1>6, <1>7 DEF QueuedInv, FaultInv
<1>9. AttemptInv /\ BehindInv
  BY Zenon, <1>4 DEF AttemptInv, Attempt, BehindInv, Behind
<1>10. OwnDocInv /\ LateInv
  BY <1>1, ClientAssumption DEF OwnDocInv, Free, LateInv
<1> QED
  BY Zenon, <1>2, <1>5, <1>8, <1>9, <1>10 DEF IndInv

LEMMA NextIndInv == IndInv /\ [Next]_vars => IndInv'
<1> SUFFICES ASSUME IndInv, [Next]_vars
             PROVE  IndInv'
  OBVIOUS
<1>1. ASSUME NEW c \in Client, ClientStep(c)
      PROVE  IndInv'
  BY Zenon, <1>1, LockWithSessionIDStep, GrabLockStep, GrabLockFailsStep, UnlockBeforeRetryStep,
     GetLockByNameStep, CheckExpiredStep, OvertakeLockStep, RetryOrTimeOutStep, UnlockStep
     DEF ClientStep
<1>2. ASSUME NEW p \in Process, FallSilent(p)
      PROVE  IndInv'
  <2>1. /\ silent \subseteq silent' /\ silent' \subseteq Process /\ doc' = doc
        /\ unlockList' = unlockList /\ call' = call /\ late' = late /\ faults' = faults
        /\ forced' = forced /\ orphaned' = orphaned /\ undone' = undone
    BY <1>2 DEF FallSilent, IndInv, TypeOK
  <2> QED
    BY Zenon, <2>1, SilentStep
<1>3. CASE UNCHANGED vars
  <2>1. /\ silent \subseteq silent' /\ silent' \subseteq Process /\ doc' = doc
        /\ unlockList' = unlockList /\ call' = call /\ late' = late /\ faults' = faults
        /\ forced' = forced /\ orphaned' = orphaned /\ undone' = undone
    BY <1>3 DEF vars, ghosts, IndInv, TypeOK
  <2> QED
    BY Zenon, <2>1, SilentStep
<1> QED
  BY Zenon, <1>1, <1>2, <1>3, LateGrabLockStep, LateOvertakeLockStep, LateUnlockStep,
     UnlockNextStep DEF Next

LEMMA SpecIndInv == Spec => []IndInv
  BY InitIndInv, NextIndInv, PTL DEF Spec

(* Every variable of the lock manager and of config.locks keeps its type. *)
THEOREM TypeCorrect == Spec => []TypeOK
<1>1. IndInv => TypeOK
  BY Zenon DEF IndInv
<1> QED
  BY <1>1, SpecIndInv, PTL

(* Mutual exclusion: whatever fails, is retried, queued or arrives late, a     *)
(* caller of lock() that was told it has the lock is the owner on record until *)
(* it unlocks, unless its process was silent and the lock was overtaken, or    *)
(* the unlock of an earlier attempt of the same call arrived late.  A          *)
(* migration's has this as long as no call on the config servers failed.       *)
THEOREM HolderStaysOwner == Spec => []HolderIsOwner
<1>1. IndInv => HolderIsOwner
  BY Zenon DEF IndInv
<1> QED
  BY <1>1, SpecIndInv, PTL

(* A call of lock() that failed, and an unlock that failed, leave no lock      *)
(* behind that the pinger does not know of: it is on the process's unlock      *)
(* list, unless a grabLock or an overtakeLock that was given up took effect    *)
(* after all, when no unlock was queued or after it was sent.                  *)
THEOREM NoLockLeftBehind == Spec => []NothingLeftBehind
<1>1. IndInv => NothingLeftBehind
  <2> SUFFICES ASSUME TypeOK, BehindInv, NEW c \in Client \ Reusing, At(c, "done"), Owns(c),
                      SessionOf[c] \notin orphaned
               PROVE  UnlockIsQueued(c)
    BY Zenon DEF IndInv, NothingLeftBehind
  <2> QED
    BY Zenon, UnlockQueued DEF BehindInv, Behind
<1> QED
  BY <1>1, SpecIndInv, PTL
=============================================================================
