--------------------------- MODULE RedirectProofs ---------------------------
(***************************************************************************)
(* Proofs about the redirect hot path: about the cache that its links come *)
(* from, for any number of links, handlers, operations and writes, and any *)
(* expiries and times to live; and about the decision and the response, for *)
(* any link an owner can make, any request and any random pick.            *)
(***************************************************************************)
EXTENDS LinkCache, RedirectDecisionMC, FiniteSetTheorems, WellFoundedInduction, TLAPS

(* Ageing a copy changes nothing but its remaining life. *)
LEMMA AgedKeepsVersion ==
  ASSUME NEW copy \in Copy
  PROVE  Aged(copy) \in Copy /\ Aged(copy).ver = copy.ver
BY TimesAssumption DEF Aged, Copy, Lives

(* An aged entry is the same entry with one tick less, or gone. *)
LEMMA AgedEntryKeepsVersion ==
  ASSUME NEW entry \in Entry \cup {Nil}
  PROVE  /\ AgedEntry(entry) \in Entry \cup {Nil}
         /\ AgedEntry(entry) # Nil =>
              /\ entry # Nil
              /\ AgedEntry(entry).cause = entry.cause
              /\ AgedEntry(entry).copy.ver = entry.copy.ver
<1>1. CASE entry = Nil \/ entry.ttl = 1
  BY <1>1 DEF AgedEntry
<1>2. CASE entry # Nil /\ entry.ttl # 1
  <2>1. entry \in Entry
    BY <1>2
  <2>2. Aged(entry.copy) \in Copy /\ Aged(entry.copy).ver = entry.copy.ver
    BY <2>1, AgedKeepsVersion DEF Entry
  <2>3. AgedEntry(entry) = [entry EXCEPT !.copy = Aged(@), !.ttl = @ - 1]
    BY <1>2 DEF AgedEntry
  <2>4. entry.ttl - 1 \in Nat \ {0}
    BY <1>2, <2>1 DEF Entry
  <2>. QED
    BY <1>2, <2>1, <2>2, <2>3, <2>4 DEF Entry
<1>. QED
  BY <1>1, <1>2

(* Blaming an entry adds a cause and keeps the copy. *)
LEMMA BlameKeepsCopy ==
  ASSUME NEW entry \in Entry \cup {Nil}, NEW why \in Causes
  PROVE  /\ Blame(entry, why) \in Entry \cup {Nil}
         /\ Blame(entry, why) # Nil => Blame(entry, why).cause # {}
BY DEF Blame, Entry

(* A handler without a request has the type of one. *)
LEMMA IdleIsRequest == Idle \in Request
BY LinksAssumption DEF Idle, Request, NoCopy, Copy, Version, Unwritten, Lives

(* The newest of two versions is the least that is as new as both. *)
LEMMA NewestIsNotOlder ==
  ASSUME NEW v \in Version, NEW w \in Version
  PROVE  /\ Newest(v, w) \in Version
         /\ NotOlder(Newest(v, w), v) /\ NotOlder(Newest(v, w), w)
         /\ \A u \in Version : NotOlder(u, v) /\ NotOlder(u, w) => NotOlder(u, Newest(v, w))
BY DEF Newest, NotOlder, Larger, Version

(* Being as new as another version is transitive. *)
LEMMA NotOlderTransitive ==
  ASSUME NEW u \in Version, NEW v \in Version, NEW w \in Version,
         NotOlder(u, v), NotOlder(v, w)
  PROVE  NotOlder(u, w)
BY DEF NotOlder, Version

-----------------------------------------------------------------------------
(* Every management write is a Write of a copy with the number of the write *)
(* in the part it changed and nothing older anywhere.                       *)
Upgrades(l, new, wrote) ==
  /\ new \in Copy /\ wrote \in Version
  /\ NotOlder(new.ver, db[l].ver)
  /\ NotOlder(new.ver, wrote)
  /\ NotOlder([row |-> stamp + 1, ab |-> stamp + 1, geo |-> stamp + 1], new.ver)

ManagementWrite(a) ==
  \E l, key \in Links, new \in Copy, wrote \in Version :
    Upgrades(l, new, wrote) /\ Write(a, l, key, new, wrote)

(* A step of an operation is its write, its deletion of the cached copy, or *)
(* the loss of it.                                                          *)
LEMMA WritesUpgrade ==
  ASSUME TypeOK, StampIsNewest, NEW a \in Admins, Management(a)
  PROVE  ManagementWrite(a) \/ Invalidate(a) \/ LoseInvalidation(a)
<1>1. ASSUME NEW l \in Links
      PROVE  /\ db[l] \in Copy /\ db[l].ver \in Version /\ stamp \in Nat
             /\ NotOlder([row |-> stamp, ab |-> stamp, geo |-> stamp], db[l].ver)
  BY DEF TypeOK, Copy, StampIsNewest
<1>2. ASSUME NEW l \in Links, NEW active \in BOOLEAN, NEW left \in Lives,
             WriteRow(a, l, active, left)
      PROVE  ManagementWrite(a)
  <2>. DEFINE new == [ver |-> [db[l].ver EXCEPT !.row = stamp + 1], active |-> active, left |-> left]
              wrote == [Unwritten EXCEPT !.row = stamp + 1]
  <2>1. Upgrades(l, new, wrote)
    BY <1>1 DEF Upgrades, Copy, Version, Unwritten, NotOlder
  <2>2. Write(a, l, l, new, wrote)
    BY <1>2 DEF WriteRow
  <2>. QED
    BY <2>1, <2>2 DEF ManagementWrite, Upgrades
<1>3. ASSUME NEW l \in Links, NEW key \in Links, WriteVariants(a, l, key)
      PROVE  ManagementWrite(a)
  <2>. DEFINE new == [db[l] EXCEPT !.ver.ab = stamp + 1]
              wrote == [Unwritten EXCEPT !.ab = stamp + 1]
  <2>1. Upgrades(l, new, wrote)
    BY <1>1 DEF Upgrades, Copy, Version, Unwritten, NotOlder
  <2>2. Write(a, l, key, new, wrote)
    BY <1>3 DEF WriteVariants
  <2>. QED
    BY <2>1, <2>2 DEF ManagementWrite, Upgrades
<1>4. ASSUME NEW l \in Links, NEW key \in Links, WriteRules(a, l, key)
      PROVE  ManagementWrite(a)
  <2>. DEFINE new == [db[l] EXCEPT !.ver.geo = stamp + 1]
              wrote == [Unwritten EXCEPT !.geo = stamp + 1]
  <2>1. Upgrades(l, new, wrote)
    BY <1>1 DEF Upgrades, Copy, Version, Unwritten, NotOlder
  <2>2. Write(a, l, key, new, wrote)
    BY <1>4 DEF WriteRules
  <2>. QED
    BY <2>1, <2>2 DEF ManagementWrite, Upgrades
<1>5. ASSUME NEW l \in Links, UpdateLink(a, l)
      PROVE  ManagementWrite(a)
  <2>1. PICK active \in BOOLEAN, left \in {db[l].left} \cup Expiries : WriteRow(a, l, active, left)
    BY <1>5 DEF UpdateLink
  <2>2. left \in Lives
    BY <1>1, TimesAssumption DEF Lives, Copy
  <2>. QED
    BY <2>1, <2>2, <1>2
<1>6. ASSUME NEW l \in Links, SoftDelete(a, l)
      PROVE  ManagementWrite(a)
  <2>1. db[l].left \in Lives
    BY <1>1 DEF Copy
  <2>. QED
    BY <1>6, <2>1, <1>2 DEF SoftDelete
<1>. QED
  BY <1>3, <1>4, <1>5, <1>6 DEF Management, CreateABTest, CreateGeoRule, DeleteABTest, DeleteGeoRule

-----------------------------------------------------------------------------
(* Types, with the bound on version numbers that the writes keep.          *)
Typed == TypeOK /\ StampIsNewest

(* The types hold initially. *)
LEMMA TypedInit == Init => Typed
<1>. SUFFICES ASSUME Init PROVE Typed
  OBVIOUS
<1>1. {Never} \cup Expiries \subseteq Lives
  BY TimesAssumption DEF Lives
<1>2. db \in [Links -> Copy] /\ \A l \in Links : db[l].ver = Unwritten
  <2>1. {TRUE} \subseteq BOOLEAN
    OBVIOUS
  <2>2. {Unwritten} \subseteq Version
    BY DEF Unwritten, Version
  <2>3. [ver : {Unwritten}, active : {TRUE}, left : {Never} \cup Expiries] \subseteq Copy
    BY <1>1, <2>1, <2>2 DEF Copy
  <2>. QED
    BY <2>3 DEF Init
<1>3. TypeOK
  BY <1>2, IdleIsRequest DEF Init, TypeOK, Version, Unwritten
<1>4. StampIsNewest
  BY <1>2 DEF Init, StampIsNewest, Unwritten, NotOlder
<1>. QED
  BY <1>3, <1>4 DEF Typed

(* The steps of a redirect keep the types. *)
LEMMA TypedRequests ==
  ASSUME Typed, NEW r \in Slots, Handler(r)
  PROVE  Typed'
<1>. USE DEF Typed, TypeOK
<1>1. req[r] \in Request /\ db[req[r].slug] \in Copy /\ req[r].copy \in Copy
  BY DEF Request
<1>2. ASSUME UNCHANGED <<db, stamp, cache, admin, acked, crashes>>,
             req' \in [Slots -> Request], fill' \in [Slots -> Fill \cup {Nil}]
      PROVE  Typed'
  BY <1>2 DEF StampIsNewest
<1>3. ASSUME EndRequest(r) PROVE Typed'
  BY <1>2, <1>3, IdleIsRequest DEF EndRequest
<1>4. ASSUME NEW l \in Links, Hit(r, l) PROVE Typed'
  <2>1. cache[l] \in Entry
    BY <1>4 DEF Hit
  <2>2. req' \in [Slots -> Request]
    BY <1>4, <2>1 DEF Hit, Request, Entry
  <2>. QED
    BY <1>2, <1>4, <2>2 DEF Hit
<1>5. ASSUME NEW l \in Links, GoToDatabase(r, l) PROVE Typed'
  <2>1. req' \in [Slots -> Request]
    BY <1>5, IdleIsRequest DEF GoToDatabase, Request
  <2>. QED
    BY <1>2, <1>5, <2>1 DEF GoToDatabase
<1>6. ASSUME FindRow(r) PROVE Typed'
  <2>1. req' \in [Slots -> Request]
    BY <1>1, <1>6 DEF FindRow, Request, Copy, Version, Unwritten
  <2>. QED
    BY <1>2, <1>6, <2>1 DEF FindRow
<1>7. ASSUME FindVariants(r) PROVE Typed'
  <2>1. req' \in [Slots -> Request]
    BY <1>1, <1>7 DEF FindVariants, Request, Copy, Version
  <2>. QED
    BY <1>2, <1>7, <2>1 DEF FindVariants
<1>8. ASSUME FindRules(r) PROVE Typed'
  <2>1. [req[r].copy EXCEPT !.ver.geo = db[req[r].slug].ver.geo] \in Copy
    BY <1>1 DEF Copy, Version
  <2>2. req' \in [Slots -> Request] /\ fill' \in [Slots -> Fill \cup {Nil}]
    BY <1>1, <1>8, <2>1 DEF FindRules, Request, Fill
  <2>. QED
    BY <1>2, <1>8, <2>2 DEF FindRules
<1>9. ASSUME LoseFill(r) PROVE Typed'
  BY <1>2, <1>9 DEF LoseFill
<1>10. ASSUME StoreFill(r) PROVE Typed'
  <2>. DEFINE l == fill[r].slug
              copy == fill[r].copy
              entry == [copy |-> copy, ttl |-> LifeInCache(copy),
                        cause |-> IF Current(l, copy) THEN {} ELSE {"raced"}]
  <2>1. l \in Links /\ copy \in Copy
    BY <1>10 DEF StoreFill, Fill
  <2>2. ~NotCached(copy) => entry \in Entry
    BY <2>1, TimesAssumption DEF NotCached, LifeInCache, Entry, Copy, Lives, Causes
  <2>3. cache' \in [Links -> Entry \cup {Nil}]
    BY <1>10, <2>1, <2>2 DEF StoreFill
  <2>. QED
    BY <1>10, <2>3 DEF StoreFill, StampIsNewest
<1>. QED
  BY <1>3, <1>4, <1>5, <1>6, <1>7, <1>8, <1>9, <1>10
  DEF Handler, Miss, CacheError, QueryFails, AnswerNotFound, AnswerRedirect

(* The steps of an operation keep the types. *)
LEMMA TypedManagement ==
  ASSUME Typed, NEW a \in Admins, Management(a)
  PROVE  Typed'
<1>. USE DEF Typed, TypeOK
<1>1. CASE ManagementWrite(a)
  <2>1. PICK l \in Links, key \in Links, new \in Copy, wrote \in Version :
               Upgrades(l, new, wrote) /\ Write(a, l, key, new, wrote)
    BY <1>1 DEF ManagementWrite
  <2>2. Blame(cache[l], "other_key") \in Entry \cup {Nil}
    BY BlameKeepsCopy DEF Causes
  <2>3. admin' \in [Admins -> Operation \cup {Nil}]
    BY <2>1 DEF Write, Upgrades, Operation
  <2>4. cache' \in [Links -> Entry \cup {Nil}]
    BY <2>1, <2>2 DEF Write
  <2>5. db' \in [Links -> Copy] /\ stamp' \in Nat
    BY <2>1 DEF Write, Upgrades
  <2>6. StampIsNewest'
    BY <2>1, <2>5 DEF Write, Upgrades, StampIsNewest, NotOlder, Copy, Version
  <2>. QED
    BY <2>1, <2>3, <2>4, <2>5, <2>6 DEF Write
<1>2. CASE Invalidate(a)
  <2>1. admin[a] \in Operation
    BY <1>2 DEF Invalidate
  <2>2. acked' \in [Links -> Version]
    BY <1>2, <2>1, NewestIsNotOlder DEF Invalidate, Operation
  <2>. QED
    BY <1>2, <2>1, <2>2 DEF Invalidate, Operation, StampIsNewest
<1>3. CASE LoseInvalidation(a)
  <2>1. admin[a].key \in Links
    BY <1>3 DEF LoseInvalidation, Operation
  <2>2. Blame(cache[admin[a].key], "lost") \in Entry \cup {Nil}
    BY <2>1, BlameKeepsCopy DEF Causes
  <2>. QED
    BY <1>3, <2>2 DEF LoseInvalidation, StampIsNewest
<1>. QED
  BY <1>1, <1>2, <1>3, WritesUpgrade

(* Time and crashes keep the types. *)
LEMMA TypedEnvironment ==
  ASSUME Typed, Tick \/ Crash
  PROVE  Typed'
<1>. USE DEF Typed, TypeOK
<1>1. CASE Tick
  <2>1. db' \in [Links -> Copy]
    BY <1>1, AgedKeepsVersion DEF Tick
  <2>2. \A l \in Links : db'[l].ver = db[l].ver
    BY <1>1, AgedKeepsVersion DEF Tick
  <2>3. cache' \in [Links -> Entry \cup {Nil}]
    BY <1>1, AgedEntryKeepsVersion DEF Tick
  <2>4. req' \in [Slots -> Request]
    BY <1>1, AgedKeepsVersion DEF Tick, Request
  <2>5. fill' \in [Slots -> Fill \cup {Nil}]
    BY <1>1, AgedKeepsVersion DEF Tick, Fill
  <2>. QED
    BY <1>1, <2>1, <2>2, <2>3, <2>4, <2>5 DEF Tick, StampIsNewest
<1>2. CASE Crash
  <2>1. \A l \in Links : Blame(cache[l], "lost") \in Entry \cup {Nil}
    BY BlameKeepsCopy DEF Causes
  <2>. QED
    BY <1>2, <2>1, IdleIsRequest DEF Crash, StampIsNewest
<1>. QED
  BY <1>1, <1>2

(* Every variable keeps its type, whatever the constants: in particular an  *)
(* entry never gets into Redis without a positive time to live.             *)
THEOREM TypeCorrect == Spec => []TypeOK
<1>1. Typed /\ [Next]_vars => Typed'
  <2>1. Typed /\ UNCHANGED vars => Typed'
    BY DEF Typed, TypeOK, StampIsNewest, vars
  <2>. QED
    BY <2>1, TypedRequests, TypedManagement, TypedEnvironment DEF Next
<1>2. Typed => TypeOK
  BY DEF Typed
<1>. QED
  BY TypedInit, <1>1, <1>2, PTL DEF Spec

-----------------------------------------------------------------------------
(* The safety invariant, step by step, given the types before and after.   *)

LEMMA SafeInit == Init => IInv
<1>. SUFFICES ASSUME Init PROVE IInv
  OBVIOUS
<1>1. TypeOK /\ StampIsNewest
  BY TypedInit DEF Typed
<1>2. \A l \in Links : db[l].ver = Unwritten /\ acked[l] = Unwritten /\ cache[l] = Nil
  BY DEF Init
<1>3. \A r \in Slots : req[r].pc = "idle"
  BY DEF Init, Idle
<1>. QED
  BY <1>1, <1>2, <1>3
  DEF Init, IInv, AckedIsCommitted, UnderWayIsCommitted, EntrySeesAcked, EntrySeesMisdirected,
      ReadsSeeFloor, StaleIsExplained, AnswersSeeAckedWrites, Blameless, NotOlder, Unwritten

(* What only concerns the database and Redis is safe from a step that       *)
(* leaves them and the operations alone.                                    *)
LEMMA StoresUntouched ==
  ASSUME IInv, UNCHANGED <<db, stamp, cache, admin, acked>>
  PROVE  /\ StampIsNewest' /\ AckedIsCommitted' /\ UnderWayIsCommitted'
         /\ EntrySeesAcked' /\ EntrySeesMisdirected' /\ StaleIsExplained'
BY DEF IInv, StampIsNewest, AckedIsCommitted, UnderWayIsCommitted, EntrySeesAcked,
       EntrySeesMisdirected, StaleIsExplained, Blameless, Owed, Current

(* The steps of a redirect preserve the inductive invariant. *)
LEMMA SafeRequests ==
  ASSUME IInv, TypeOK', NEW r \in Slots, Handler(r)
  PROVE  IInv'
<1>. USE DEF IInv
<1>1. /\ req[r] \in Request /\ req[r].slug \in Links /\ req[r].copy \in Copy
      /\ \A l \in Links : db[l] \in Copy /\ acked[l] \in Version
  BY DEF TypeOK, Request
<1>2. ASSUME UNCHANGED <<db, stamp, cache, admin, acked>>,
             \A s \in Slots : s # r => req'[s] = req[s],
             LET q == req'[r] IN
             /\ q.pc \in {"row", "ab", "geo"} => NotOlder(db[q.slug].ver, q.floor)
             /\ q.pc \in {"ab", "geo"} => q.copy.ver.row >= q.floor.row
             /\ q.pc = "geo" => q.copy.ver.ab >= q.floor.ab
             /\ q.pc = "answer" /\ ~q.excused => NotOlder(q.copy.ver, q.floor)
      PROVE  IInv'
  <2>1. ReadsSeeFloor'
    BY <1>2 DEF ReadsSeeFloor
  <2>2. AnswersSeeAckedWrites'
    BY <1>2 DEF AnswersSeeAckedWrites
  <2>. QED
    BY <1>2, <2>1, <2>2, StoresUntouched
<1>3. ASSUME EndRequest(r) PROVE IInv'
  <2>1. req'[r].pc = "idle" /\ \A s \in Slots : s # r => req'[s] = req[s]
    BY <1>3 DEF EndRequest, TypeOK, Idle
  <2>. QED
    BY <1>2, <1>3, <2>1 DEF EndRequest
<1>4. ASSUME NEW l \in Links, Hit(r, l) PROVE IInv'
  <2>1. /\ req'[r].pc = "answer" /\ req'[r].copy = cache[l].copy
        /\ req'[r].floor = acked[l] /\ req'[r].excused = (cache[l].cause # {})
        /\ \A s \in Slots : s # r => req'[s] = req[s]
    BY <1>4 DEF Hit, TypeOK
  <2>2. ~req'[r].excused => NotOlder(cache[l].copy.ver, acked[l])
    BY <1>4, <2>1 DEF Hit, EntrySeesAcked, Blameless
  <2>. QED
    BY <1>2, <1>4, <2>1, <2>2 DEF Hit
<1>5. ASSUME NEW l \in Links, GoToDatabase(r, l) PROVE IInv'
  <2>1. /\ req'[r].pc = "row" /\ req'[r].slug = l /\ req'[r].floor = acked[l]
        /\ \A s \in Slots : s # r => req'[s] = req[s]
    BY <1>5 DEF GoToDatabase, TypeOK, Idle
  <2>. QED
    BY <1>2, <1>5, <2>1 DEF GoToDatabase, AckedIsCommitted
<1>6. ASSUME FindRow(r) PROVE IInv'
  <2>1. /\ req'[r].pc = "ab" /\ req'[r].slug = req[r].slug /\ req'[r].floor = req[r].floor
        /\ req'[r].copy.ver.row = db[req[r].slug].ver.row
        /\ \A s \in Slots : s # r => req'[s] = req[s]
    BY <1>1, <1>6 DEF FindRow, TypeOK, Request, Copy, Version, Unwritten
  <2>. QED
    BY <1>2, <1>6, <2>1 DEF FindRow, ReadsSeeFloor, NotOlder
<1>7. ASSUME FindVariants(r) PROVE IInv'
  <2>1. /\ req'[r].pc = "geo" /\ req'[r].slug = req[r].slug /\ req'[r].floor = req[r].floor
        /\ req'[r].copy.ver.row = req[r].copy.ver.row
        /\ req'[r].copy.ver.ab = db[req[r].slug].ver.ab
        /\ \A s \in Slots : s # r => req'[s] = req[s]
    BY <1>1, <1>7 DEF FindVariants, TypeOK, Request, Copy, Version
  <2>. QED
    BY <1>2, <1>7, <2>1 DEF FindVariants, ReadsSeeFloor, NotOlder
<1>8. ASSUME FindRules(r) PROVE IInv'
  <2>1. /\ req'[r].pc = "answer" /\ req'[r].floor = req[r].floor
        /\ req'[r].copy.ver.row = req[r].copy.ver.row
        /\ req'[r].copy.ver.ab = req[r].copy.ver.ab
        /\ req'[r].copy.ver.geo = db[req[r].slug].ver.geo
        /\ \A s \in Slots : s # r => req'[s] = req[s]
    BY <1>1, <1>8 DEF FindRules, TypeOK, Request, Copy, Version
  <2>. QED
    BY <1>2, <1>8, <2>1 DEF FindRules, ReadsSeeFloor, NotOlder
<1>9. ASSUME LoseFill(r) PROVE IInv'
  BY <1>9, StoresUntouched DEF LoseFill, ReadsSeeFloor, AnswersSeeAckedWrites
<1>10. ASSUME StoreFill(r) PROVE IInv'
  <2>1. ASSUME NEW l \in Links, Blameless(l)'
        PROVE  cache'[l] = cache[l] \/ cache'[l].copy.ver = db[l].ver
    BY <1>10, <2>1 DEF StoreFill, Blameless, Current, TypeOK, Fill
  <2>2. EntrySeesAcked'
    BY <1>10, <2>1 DEF StoreFill, EntrySeesAcked, Blameless, AckedIsCommitted
  <2>3. EntrySeesMisdirected'
    BY <1>10, <2>1
    DEF StoreFill, EntrySeesMisdirected, Blameless, UnderWayIsCommitted, TypeOK, Operation
  <2>4. StaleIsExplained'
    BY <1>10, <2>1 DEF StoreFill, StaleIsExplained, Blameless, Current, Owed
  <2>5. StampIsNewest' /\ AckedIsCommitted' /\ UnderWayIsCommitted'
        /\ ReadsSeeFloor' /\ AnswersSeeAckedWrites'
    BY <1>10 DEF StoreFill, StampIsNewest, AckedIsCommitted, UnderWayIsCommitted,
                 ReadsSeeFloor, AnswersSeeAckedWrites
  <2>. QED
    BY <2>2, <2>3, <2>4, <2>5
<1>. QED
  BY <1>3, <1>4, <1>5, <1>6, <1>7, <1>8, <1>9, <1>10
  DEF Handler, Miss, CacheError, QueryFails, AnswerNotFound, AnswerRedirect

(* The write of an operation preserves the inductive invariant. *)
LEMMA SafeWrite ==
  ASSUME IInv, TypeOK', StampIsNewest', NEW a \in Admins, ManagementWrite(a)
  PROVE  IInv'
<1>. USE DEF IInv
<1>1. PICK l \in Links, key \in Links, new \in Copy, wrote \in Version :
             Upgrades(l, new, wrote) /\ Write(a, l, key, new, wrote)
  BY DEF ManagementWrite
<1>2. /\ new \in Copy /\ wrote \in Version /\ new.ver \in Version
      /\ NotOlder(new.ver, db[l].ver) /\ NotOlder(new.ver, wrote)
      /\ db'[l] = new /\ \A k \in Links : k # l => db'[k] = db[k]
  BY <1>1 DEF Upgrades, Write, TypeOK, Copy
<1>3. \A k \in Links : db[k].ver \in Version /\ acked[k] \in Version
  BY DEF TypeOK, Copy
<1>4. ASSUME NEW k \in Links, NEW v \in Version, NotOlder(db[k].ver, v)
      PROVE  NotOlder(db'[k].ver, v)
  BY <1>2, <1>3, <1>4, NotOlderTransitive
<1>5. /\ admin'[a] # Nil /\ admin'[a].link = l /\ admin'[a].key = key /\ admin'[a].wrote = wrote
      /\ admin[a] = Nil /\ \A b \in Admins : b # a => admin'[b] = admin[b]
  <2>1. [link |-> l, key |-> key, wrote |-> wrote] \in Operation
    BY <1>2 DEF Operation
  <2>. QED
    BY <1>1, <2>1, LinksAssumption DEF Write, TypeOK
<1>6. /\ \A k \in Links : k # l \/ key = l => cache'[k] = cache[k]
      /\ key # l => ~Blameless(l)'
      /\ \A k \in Links : Blameless(k)' => cache'[k] = cache[k]
  BY <1>1, BlameKeepsCopy DEF Write, TypeOK, Causes, Blameless
<1>7. AckedIsCommitted'
  BY <1>1, <1>3, <1>4 DEF Write, AckedIsCommitted
<1>8. UnderWayIsCommitted'
  <2>1. ASSUME NEW b \in Admins, b # a, admin'[b] # Nil
        PROVE  NotOlder(db'[admin'[b].link].ver, admin'[b].wrote)
    BY <1>4, <1>5, <2>1 DEF UnderWayIsCommitted, TypeOK, Operation
  <2>. QED
    BY <1>2, <1>5, <2>1 DEF UnderWayIsCommitted
<1>9. EntrySeesAcked'
  BY <1>1, <1>6 DEF Write, EntrySeesAcked, Blameless
<1>10. EntrySeesMisdirected'
  <2>1. ASSUME NEW b \in Admins, b # a, admin[b] # Nil, admin[b].key # admin[b].link,
               cache'[admin[b].link] # Nil, cache'[admin[b].link].cause = {}
        PROVE  NotOlder(cache'[admin[b].link].copy.ver, admin[b].wrote)
    BY <1>6, <2>1 DEF EntrySeesMisdirected, TypeOK, Operation, Blameless
  <2>. QED
    BY <1>5, <1>6, <2>1 DEF EntrySeesMisdirected, Blameless
<1>11. ReadsSeeFloor'
  <2>1. \A r \in Slots : req'[r] = req[r] /\ req[r].slug \in Links /\ req[r].floor \in Version
    BY <1>1 DEF Write, TypeOK, Request
  <2>. QED
    BY <1>4, <2>1 DEF ReadsSeeFloor
<1>12. StaleIsExplained'
  <2>1. ASSUME NEW k \in Links, cache'[k] # Nil, cache'[k].cause = {},
               cache'[k].copy.ver # db'[k].ver
        PROVE  Owed(k)'
    <3>1. CASE k = l
      BY <1>5, <1>6, <2>1, <3>1 DEF Owed, Blameless
    <3>2. CASE k # l
      <4>1. Owed(k)
        BY <1>2, <1>6, <2>1, <3>2 DEF StaleIsExplained, Current
      <4>. QED
        BY <1>5, <4>1 DEF Owed
    <3>. QED
      BY <3>1, <3>2
  <2>. QED
    BY <2>1 DEF StaleIsExplained, Current
<1>13. AnswersSeeAckedWrites'
  BY <1>1 DEF Write, AnswersSeeAckedWrites
<1>. QED
  BY <1>7, <1>8, <1>9, <1>10, <1>11, <1>12, <1>13

(* Deleting the cached copy, or failing to, preserves the inductive *)
(* invariant.                                                       *)
LEMMA SafeInvalidation ==
  ASSUME IInv, TypeOK', NEW a \in Admins, Invalidate(a) \/ LoseInvalidation(a)
  PROVE  IInv'
<1>. USE DEF IInv
<1>1. /\ admin[a] # Nil /\ admin[a] \in Operation
      /\ admin[a].link \in Links /\ admin[a].key \in Links /\ admin[a].wrote \in Version
  BY DEF Invalidate, LoseInvalidation, TypeOK, Operation
<1>2. /\ admin'[a] = Nil /\ \A b \in Admins : b # a => admin'[b] = admin[b]
      /\ UNCHANGED <<db, stamp, req, fill>>
  BY DEF Invalidate, LoseInvalidation, TypeOK
<1>3. /\ \A k \in Links : k = admin[a].key => ~Blameless(k)'
      /\ \A k \in Links : k # admin[a].key => cache'[k] = cache[k]
      /\ \A k \in Links : Blameless(k)' => cache'[k] = cache[k]
  BY <1>1, BlameKeepsCopy DEF Invalidate, LoseInvalidation, TypeOK, Causes, Blameless
<1>4. \A k \in Links : acked[k] \in Version /\ db[k].ver \in Version
  BY DEF TypeOK, Copy
<1>5. /\ \A k \in Links : k # admin[a].link => acked'[k] = acked[k]
      /\ \/ acked'[admin[a].link] = acked[admin[a].link]
         \/ acked'[admin[a].link] = Newest(acked[admin[a].link], admin[a].wrote)
  BY <1>1 DEF Invalidate, LoseInvalidation, TypeOK
<1>6. StampIsNewest' /\ UnderWayIsCommitted' /\ ReadsSeeFloor' /\ AnswersSeeAckedWrites'
  BY <1>2 DEF StampIsNewest, UnderWayIsCommitted, ReadsSeeFloor, AnswersSeeAckedWrites
<1>7. AckedIsCommitted'
  BY <1>1, <1>2, <1>4, <1>5, NewestIsNotOlder DEF AckedIsCommitted, UnderWayIsCommitted
<1>8. EntrySeesAcked'
  <2>1. ASSUME NEW k \in Links, Blameless(k)'
        PROVE  NotOlder(cache'[k].copy.ver, acked'[k])
    <3>1. cache'[k] = cache[k] /\ k # admin[a].key /\ Blameless(k)
      BY <1>3, <2>1 DEF Blameless
    <3>2. cache[k].copy.ver \in Version /\ NotOlder(cache[k].copy.ver, acked[k])
      BY <3>1 DEF EntrySeesAcked, Blameless, TypeOK, Entry, Copy
    <3>3. k = admin[a].link => NotOlder(cache[k].copy.ver, admin[a].wrote)
      BY <1>1, <3>1 DEF EntrySeesMisdirected
    <3>. QED
      BY <1>1, <1>4, <1>5, <3>1, <3>2, <3>3, NewestIsNotOlder
  <2>. QED
    BY <2>1 DEF EntrySeesAcked
<1>9. EntrySeesMisdirected'
  BY <1>2, <1>3 DEF EntrySeesMisdirected, Blameless, TypeOK, Operation
<1>10. StaleIsExplained'
  <2>1. ASSUME NEW k \in Links, cache'[k] # Nil, cache'[k].cause = {},
               cache'[k].copy.ver # db'[k].ver
        PROVE  Owed(k)'
    <3>1. cache'[k] = cache[k] /\ k # admin[a].key
      BY <1>3, <2>1 DEF Blameless
    <3>2. Owed(k)
      BY <1>2, <2>1, <3>1 DEF StaleIsExplained, Current
    <3>. QED
      BY <1>2, <3>1, <3>2 DEF Owed
  <2>. QED
    BY <2>1 DEF StaleIsExplained, Current
<1>. QED
  BY <1>6, <1>7, <1>8, <1>9, <1>10

(* Time and crashes preserve the inductive invariant. *)
LEMMA SafeEnvironment ==
  ASSUME IInv, TypeOK', StampIsNewest', Tick \/ Crash
  PROVE  IInv'
<1>. USE DEF IInv
<1>1. CASE Tick
  <2>1. \A l \in Links : db'[l].ver = db[l].ver
    BY <1>1, AgedKeepsVersion DEF Tick, TypeOK
  <2>2. \A l \in Links : cache'[l] # Nil =>
          /\ cache[l] # Nil /\ cache'[l].cause = cache[l].cause
          /\ cache'[l].copy.ver = cache[l].copy.ver
    BY <1>1, AgedEntryKeepsVersion DEF Tick, TypeOK
  <2>3. \A r \in Slots :
          /\ req'[r].pc = req[r].pc /\ req'[r].slug = req[r].slug /\ req'[r].floor = req[r].floor
          /\ req'[r].excused = req[r].excused /\ req'[r].copy.ver = req[r].copy.ver
          /\ req[r].slug \in Links
    BY <1>1, AgedKeepsVersion DEF Tick, TypeOK, Request
  <2>4. AckedIsCommitted' /\ UnderWayIsCommitted'
    BY <1>1, <2>1 DEF Tick, AckedIsCommitted, UnderWayIsCommitted, TypeOK, Operation
  <2>5. EntrySeesAcked' /\ EntrySeesMisdirected'
    BY <1>1, <2>2
    DEF Tick, EntrySeesAcked, EntrySeesMisdirected, Blameless, TypeOK, Operation
  <2>6. ReadsSeeFloor' /\ AnswersSeeAckedWrites'
    BY <2>1, <2>3 DEF ReadsSeeFloor, AnswersSeeAckedWrites
  <2>7. StaleIsExplained'
    BY <1>1, <2>1, <2>2 DEF Tick, StaleIsExplained, Current, Owed
  <2>. QED
    BY <2>4, <2>5, <2>6, <2>7
<1>2. CASE Crash
  <2>1. \A r \in Slots : req'[r].pc = "idle"
    BY <1>2 DEF Crash, Idle
  <2>2. \A l \in Links : Blameless(l)' => cache'[l] = cache[l] /\ ~Owed(l)
    BY <1>2, BlameKeepsCopy DEF Crash, TypeOK, Causes, Blameless
  <2>3. ReadsSeeFloor' /\ AnswersSeeAckedWrites'
    BY <2>1 DEF ReadsSeeFloor, AnswersSeeAckedWrites
  <2>4. AckedIsCommitted' /\ UnderWayIsCommitted' /\ EntrySeesMisdirected'
    BY <1>2 DEF Crash, AckedIsCommitted, UnderWayIsCommitted, EntrySeesMisdirected
  <2>5. EntrySeesAcked'
    BY <1>2, <2>2 DEF Crash, EntrySeesAcked, Blameless
  <2>6. StaleIsExplained'
    BY <1>2, <2>2 DEF Crash, StaleIsExplained, Blameless, Current
  <2>. QED
    BY <2>3, <2>4, <2>5, <2>6
<1>. QED
  BY <1>1, <1>2

-----------------------------------------------------------------------------
(* Every step preserves the inductive invariant. *)
LEMMA SafeStep == IInv /\ [Next]_vars => IInv'
<1>. SUFFICES ASSUME IInv, [Next]_vars PROVE IInv'
  OBVIOUS
<1>1. TypeOK' /\ StampIsNewest'
  <2>1. Typed
    BY DEF IInv, Typed
  <2>2. Typed'
    <3>1. CASE UNCHANGED vars
      BY <2>1, <3>1 DEF Typed, TypeOK, StampIsNewest, vars
    <3>. QED
      BY <2>1, <3>1, TypedRequests, TypedManagement, TypedEnvironment DEF Next
  <2>. QED
    BY <2>2 DEF Typed
<1>2. ASSUME NEW a \in Admins, Management(a) PROVE IInv'
  BY <1>1, <1>2, WritesUpgrade, SafeWrite, SafeInvalidation DEF IInv
<1>3. CASE UNCHANGED vars
  BY <1>1, <1>3, StoresUntouched DEF vars, IInv, ReadsSeeFloor, AnswersSeeAckedWrites
<1>. QED
  BY <1>1, <1>2, <1>3, SafeRequests, SafeEnvironment DEF Next

(* A stale cache entry always has an operation that is about to delete it,  *)
(* or a cause: for every number of links, handlers, operations and writes.  *)
THEOREM StaleEntriesExplained == Spec => []StaleIsExplained
<1>1. IInv => StaleIsExplained
  BY DEF IInv
<1>. QED
  BY SafeInit, SafeStep, <1>1, PTL DEF Spec

(* A redirect that hits no blamed entry sees every write that was           *)
(* acknowledged before it began.                                            *)
THEOREM AckedWritesSeen == Spec => []AnswersSeeAckedWrites
<1>1. IInv => AnswersSeeAckedWrites
  BY DEF IInv
<1>. QED
  BY SafeInit, SafeStep, <1>1, PTL DEF Spec

-----------------------------------------------------------------------------
(* The time to live of an entry, against the expiry of the copy in it.     *)
Timely(entry) ==
  entry # Nil /\ entry.copy.left # Never => entry.ttl <= Larger(entry.copy.left, 0) + Buffer

(* Time takes one tick off both, and stops the copy's clock at its expiry. *)
LEMMA AgedEntryIsTimely ==
  ASSUME NEW entry \in Entry \cup {Nil}, Timely(entry)
  PROVE  Timely(AgedEntry(entry))
<1>1. CASE entry = Nil \/ entry.ttl = 1
  BY <1>1 DEF AgedEntry, Timely
<1>2. CASE entry # Nil /\ entry.ttl # 1
  <2>1. entry \in Entry /\ entry.ttl \in Nat /\ entry.copy \in Copy /\ entry.copy.left \in Lives
    BY <1>2 DEF Entry, Copy
  <2>2. AgedEntry(entry).copy = Aged(entry.copy) /\ AgedEntry(entry).ttl = entry.ttl - 1
    BY <1>2, <2>1 DEF AgedEntry, Entry
  <2>3. CASE entry.copy.left = Never
    BY <1>2, <2>1, <2>2, <2>3 DEF Aged, Timely
  <2>4. CASE entry.copy.left = -1
    BY <1>2, <2>1, <2>2, <2>4, TimesAssumption DEF Aged, Timely, Larger
  <2>5. CASE entry.copy.left \in Nat
    <3>1. Aged(entry.copy).left = entry.copy.left - 1
      BY <2>1, <2>5, TimesAssumption DEF Aged, Copy
    <3>. QED
      BY <1>2, <2>1, <2>2, <2>5, <3>1, TimesAssumption DEF Timely, Larger
  <2>. QED
    BY <2>1, <2>3, <2>4, <2>5 DEF Lives
<1>. QED
  BY <1>1, <1>2

(* Blaming an entry does not make it live longer. *)
LEMMA BlameKeepsTimely ==
  ASSUME NEW entry \in Entry \cup {Nil}, NEW why \in Causes, Timely(entry)
  PROVE  Timely(Blame(entry, why))
BY DEF Blame, Timely, Entry

(* SetLink stores a copy with Buffer added to the life it has left. *)
LEMMA FilledIsTimely ==
  ASSUME NEW copy \in Copy, NEW cause, ~NotCached(copy)
  PROVE  Timely([copy |-> copy, ttl |-> LifeInCache(copy), cause |-> cause])
BY TimesAssumption DEF NotCached, LifeInCache, Timely, Larger, Copy, Lives

(* No step makes an entry outlive its link for long. *)
LEMMA TimelyStep ==
  ASSUME Typed, \A l \in Links : Timely(cache[l]), [Next]_vars
  PROVE  \A l \in Links : Timely(cache'[l])
<1>. USE DEF Typed, TypeOK
<1>1. ASSUME cache' = cache PROVE \A l \in Links : Timely(cache'[l])
  BY <1>1
<1>2. ASSUME NEW k \in Links, NEW why \in Causes, cache' = [cache EXCEPT ![k] = Blame(@, why)]
      PROVE  \A l \in Links : Timely(cache'[l])
  <2>1. Timely(Blame(cache[k], why))
    BY BlameKeepsTimely
  <2>. QED
    BY <1>2, <2>1
<1>3. ASSUME NEW r \in Slots, StoreFill(r) PROVE \A l \in Links : Timely(cache'[l])
  <2>1. fill[r].slug \in Links /\ fill[r].copy \in Copy
    BY <1>3 DEF StoreFill, Fill
  <2>. DEFINE entry == [copy |-> fill[r].copy, ttl |-> LifeInCache(fill[r].copy),
                        cause |-> IF Current(fill[r].slug, fill[r].copy) THEN {} ELSE {"raced"}]
  <2>2. CASE NotCached(fill[r].copy)
    BY <1>1, <1>3, <2>2 DEF StoreFill
  <2>3. CASE ~NotCached(fill[r].copy)
    <3>1. cache' = [cache EXCEPT ![fill[r].slug] = entry]
      BY <1>3, <2>3 DEF StoreFill
    <3>2. Timely(entry)
      BY <2>1, <2>3, FilledIsTimely
    <3>. HIDE DEF entry
    <3>. QED
      BY <2>1, <3>1, <3>2
  <2>. QED
    BY <2>2, <2>3
<1>4. ASSUME NEW r \in Slots, Handler(r) PROVE \A l \in Links : Timely(cache'[l])
  BY <1>1, <1>3, <1>4
  DEF Handler, Hit, Miss, CacheError, GoToDatabase, FindRow, FindVariants, FindRules,
      QueryFails, AnswerNotFound, AnswerRedirect, EndRequest, LoseFill
<1>5. ASSUME NEW a \in Admins, Management(a) PROVE \A l \in Links : Timely(cache'[l])
  <2>1. CASE ManagementWrite(a)
    BY <1>1, <1>2, <2>1 DEF ManagementWrite, Write, Causes
  <2>2. CASE Invalidate(a)
    BY <2>2 DEF Invalidate, Timely
  <2>3. CASE LoseInvalidation(a)
    BY <1>2, <2>3 DEF LoseInvalidation, Operation, Causes
  <2>. QED
    BY <1>5, <2>1, <2>2, <2>3, WritesUpgrade
<1>6. CASE Tick
  BY <1>6, AgedEntryIsTimely DEF Tick
<1>7. CASE Crash
  <2>1. \A l \in Links : Timely(Blame(cache[l], "lost"))
    BY BlameKeepsTimely DEF Causes
  <2>. QED
    BY <1>7, <2>1 DEF Crash
<1>. QED
  BY <1>1, <1>4, <1>5, <1>6, <1>7 DEF Next, vars

(* An entry that carries an expiry leaves Redis at most Buffer after it,    *)
(* for all expiries and times to live: neither a fill that runs late, nor a *)
(* management write that moves the expiry, nor a crash prolongs its stay.   *)
THEOREM ExpiredEntriesLeave == Spec => []ExpiredEntriesGoAway
<1>. DEFINE TimelyInv == Typed /\ \A l \in Links : Timely(cache[l])
<1>1. Init => TimelyInv
  BY TypedInit DEF Init, Timely
<1>2. TimelyInv /\ [Next]_vars => TimelyInv'
  <2>. SUFFICES ASSUME TimelyInv, [Next]_vars PROVE TimelyInv'
    OBVIOUS
  <2>1. Typed'
    BY TypedRequests, TypedManagement, TypedEnvironment DEF Next, Typed, TypeOK, StampIsNewest, vars
  <2>2. \A l \in Links : Timely(cache'[l])
    BY TimelyStep
  <2>. QED
    BY <2>1, <2>2
<1>3. TimelyInv => ExpiredEntriesGoAway
  BY DEF ExpiredEntriesGoAway, Timely
<1>. QED
  BY <1>1, <1>2, <1>3, PTL DEF Spec

-----------------------------------------------------------------------------
(* The decision and the response, taken by themselves. The link is one that *)
(* owners have made within the bounds of RedirectDecisionMC, which are      *)
(* arbitrary here. First what requests for it are answered.                 *)

(* A link that is gone and a missing one are not told apart where the       *)
(* handlers ask for the decision, and nowhere after.                        *)
THEOREM Indistinguishable == MCSpec => []GoneLooksMissing
<1>1. ASSUME Gone(link), NEW visit, NEW pick
      PROVE  Decide(Resolved, visit, pick) =
             Decide(Missing, visit, pick)
  BY <1>1 DEF Decide, Resolved, Missing, Redirect,
              Refusal, Fails
<1>2. GoneLooksMissing
  BY <1>1 DEF GoneLooksMissing, Exchange, Chain, Route,
              GetSlug, PostUnlock
<1> QED
  BY <1>2, PTL

Founds == {Resolved, Missing, Failed}

Redirections == {Permanent, Found}

Refusals == {"link_not_found", "query", "password_required", "invalid_password"}

HandlerErrors == Refusals \cup {"bad_body", "no_slug"}

(* A decision is a refusal or a redirect. *)
LEMMA Decided ==
  ASSUME NEW found \in Founds, NEW visit, NEW pick
  PROVE  LET answer == Decide(found, visit, pick)
         IN  IF answer.error = "none" THEN answer.status \in Redirections
             ELSE answer.error \in Refusals
<1>1. found.error \in {"none", "link_not_found", "query"}
  BY DEF Founds, Resolved, Missing, Failed
<1>2. ASSUME NEW l
      PROVE  LET answer == Redirect(l, visit, pick)
             IN  IF answer.error = "none" THEN answer.status \in Redirections
                 ELSE answer.error \in Refusals
  <2>1. Refusal(l, visit) \in Refusals \cup {"none"}
    BY DEF Refusal, Refusals
  <2>2. Destination(l, visit.country, pick).error = "none"
        /\ Destination(l, visit.country, pick).status \in Redirections
    BY DEF Destination, Sends, Redirections
  <2> QED
    BY <2>1, <2>2 DEF Redirect, Fails
<1> QED
  BY <1>1, <1>2 DEF Decide, Fails, Refusals

(* The handlers publish a click where they redirect, and write 200 or      *)
(* nothing otherwise.                                                      *)
Redirects(reply) ==
  reply.err = "none" /\ reply.status \in Redirections /\ reply.clicks = 1

Rests(reply) ==
  /\ reply.clicks = 0 /\ reply.status = OK
  /\ reply.err \in HandlerErrors \cup {"none"}

IsReply(reply) ==
  reply = [err |-> reply.err, status |-> reply.status, dest |-> reply.dest,
           clicks |-> reply.clicks, redirects |-> reply.redirects]

(* The handlers redirect with a click, or publish none. *)
LEMMA Handled ==
  ASSUME NEW found \in Founds, NEW r, NEW pick
  PROVE  LET reply == Route(found, r, pick)
         IN  IsReply(reply) /\ reply.redirects = <<>> /\ (Redirects(reply) \/ Rests(reply))
<1> DEFINE Good(reply) ==
      IsReply(reply) /\ reply.redirects = <<>> /\ (Redirects(reply) \/ Rests(reply))
<1>1. ASSUME NEW err \in HandlerErrors PROVE Good(Returns(err))
  BY <1>1 DEF Returns, IsReply, Rests
<1>2. ASSUME NEW visit PROVE Good(GetSlug(found, visit, pick))
  <2> DEFINE answer == Decide(found, [visit EXCEPT !.password = NoPassword], pick)
  <2>1. IF answer.error = "none" THEN answer.status \in Redirections ELSE answer.error \in Refusals
    BY Decided
  <2> HIDE DEF answer
  <2>2. CASE answer.error = "none"
    BY <2>1, <2>2 DEF GetSlug, answer, Writes, IsReply, Redirects
  <2>3. CASE answer.error # "none"
    <3>1. answer.error \in HandlerErrors
      BY <2>1, <2>3 DEF HandlerErrors
    <3> QED
      BY <1>1, <2>3, <3>1 DEF GetSlug, answer
  <2> QED
    BY <2>2, <2>3
<1>3. Good(PostUnlock(found, r, pick))
  <2> DEFINE answer == Decide(found, [r.visit EXCEPT !.country = NoCountry], pick)
  <2>1. IF answer.error = "none" THEN answer.status \in Redirections ELSE answer.error \in Refusals
    BY Decided
  <2> HIDE DEF answer
  <2>2. Good(Writes(OK, answer.dest))
    BY DEF Writes, IsReply, Rests
  <2>3. answer.error # "none" => Good(Returns(answer.error))
    BY <1>1, <2>1 DEF HandlerErrors
  <2>4. Good(Returns("bad_body"))
    BY <1>1 DEF HandlerErrors
  <2> HIDE DEF Good
  <2> QED
    BY <2>2, <2>3, <2>4 DEF PostUnlock, answer
<1>4. Good(Returns("no_slug"))
  BY <1>1 DEF HandlerErrors
<1> HIDE DEF Good
<1>5. Good(Route(found, r, pick))
  BY <1>2, <1>3, <1>4 DEF Route
<1> QED
  BY <1>5 DEF Good

Counts == {"redirect_301", "redirect_302"}

(* Each handler's reply is counted once, as a redirect if it is one. *)
LEMMA Classified ==
  ASSUME NEW reply, Redirects(reply) \/ Rests(reply)
  PROVE  Classify(reply) \in Counts <=> reply.clicks = 1
<1>1. CASE Redirects(reply)
  BY <1>1 DEF Redirects, Redirections, Counts, Classify, Permanent, Found
<1>2. CASE Rests(reply)
  BY <1>2 DEF Rests, HandlerErrors, Refusals, Counts, Classify, Permanent,
              Found, OK
<1> QED
  BY <1>1, <1>2

(* What leaves the middlewares: a click for exactly what was counted as a *)
(* redirect.                                                              *)
LEMMA Chained ==
  ASSUME NEW found \in Founds, NEW r, NEW pick
  PROVE  LET reply == Chain(found, r, pick)
         IN  \/ reply.redirects = <<>> /\ reply.clicks = 0
             \/ \E kind : /\ reply.redirects = <<kind>>
                          /\ reply.clicks = IF kind \in Counts THEN 1 ELSE 0
<1> DEFINE Good(reply) ==
      \/ reply.redirects = <<>> /\ reply.clicks = 0
      \/ \E kind : /\ reply.redirects = <<kind>>
                   /\ reply.clicks = IF kind \in Counts THEN 1 ELSE 0
<1>1. Good(Writes(Permanent, "https"))
  BY DEF Writes
<1>2. Good(Returns("over_limit"))
  BY DEF Returns
<1>3. Good(RedirectMetrics(Route(found, r, pick)))
  <2> DEFINE reply == Route(found, r, pick)
             kind == Classify(reply)
  <2>1. IsReply(reply) /\ reply.redirects = <<>> /\ (Redirects(reply) \/ Rests(reply))
    BY Handled
  <2>2. kind \in Counts <=> reply.clicks = 1
    BY <2>1, Classified
  <2> HIDE DEF reply, kind
  <2>3. RedirectMetrics(reply) = [reply EXCEPT !.redirects = <<kind>>]
    BY <2>1 DEF RedirectMetrics, kind
  <2>4. /\ RedirectMetrics(reply).redirects = <<kind>>
        /\ RedirectMetrics(reply).clicks = reply.clicks
    BY <2>1, <2>3 DEF IsReply
  <2>5. reply.clicks = IF kind \in Counts THEN 1 ELSE 0
    BY <2>1, <2>2 DEF Redirects, Rests
  <2>6. Good(RedirectMetrics(reply))
    BY <2>4, <2>5
  <2> QED
    BY <2>6 DEF reply
<1> HIDE DEF Good
<1>4. Good(Chain(found, r, pick))
  BY <1>1, <1>2, <1>3 DEF Chain, HTTPSRedirect, RateLimiter
<1> QED
  BY <1>4 DEF Good

(* A click is published for every redirect that is counted, whatever the   *)
(* link, the request and the pick.                                         *)
THEOREM Published == MCSpec => []ClicksMatchRedirects
<1> DEFINE counted(kinds) == {i \in DOMAIN kinds : kinds[i] \in Counts}
<1>1. Cardinality(counted(<<>>)) = 0
  <2>1. counted(<<>>) = {}
    OBVIOUS
  <2> QED
    BY <2>1, FS_EmptySet
<1>2. ASSUME NEW kind PROVE Cardinality(counted(<<kind>>)) = IF kind \in Counts THEN 1 ELSE 0
  <2>1. CASE kind \in Counts
    <3>1. counted(<<kind>>) = {1}
      BY <2>1
    <3> QED
      BY <2>1, <3>1, FS_Singleton
  <2>2. CASE kind \notin Counts
    <3>1. counted(<<kind>>) = {}
      BY <2>2
    <3> QED
      BY <2>2, <3>1, FS_EmptySet
  <2> QED
    BY <2>1, <2>2
<1>3. ASSUME NEW found \in Founds, NEW r, NEW pick
      PROVE  Exchange(found, r, pick).clicks =
               Cardinality(counted(Exchange(found, r, pick).redirects))
  <2> DEFINE reply == Chain(found, r, pick)
  <2>1. \/ reply.redirects = <<>> /\ reply.clicks = 0
        \/ \E kind : reply.redirects = <<kind>> /\ reply.clicks = IF kind \in Counts THEN 1 ELSE 0
    BY Chained
  <2> HIDE DEF reply, counted
  <2>2. reply.clicks = Cardinality(counted(reply.redirects))
    BY <1>1, <1>2, <2>1
  <2> QED
    BY <2>2 DEF Exchange, reply
<1>4. ClicksMatchRedirects
  <2> SUFFICES ASSUME NEW found \in {Resolved, Missing, Failed},
                      NEW r \in Requests, NEW p \in Picks
               PROVE  LET e == Exchange(found, r, p)
                      IN  e.clicks = Cardinality({i \in DOMAIN e.redirects :
                                       e.redirects[i] \in {"redirect_301", "redirect_302"}})
    BY DEF ClicksMatchRedirects
  <2> QED
    BY <1>3 DEF Counts, Founds
<1> QED
  BY <1>4, PTL

-----------------------------------------------------------------------------
(* The links that the owners make.                                         *)

Rules == [country : Countries, dest : {<<"geo", c>> : c \in Countries}]

Variants == {v \in [id : VariantIds, dest : {<<"ab", id>> : id \in VariantIds}, weight : Nat \ {0}] :
               v.dest = <<"ab", v.id>>}

Distinct(variants) == \A i, j \in DOMAIN variants : variants[i].id = variants[j].id => i = j

IsLink(l) ==
  /\ l = [left |-> l.left, active |-> l.active, hash |-> l.hash, dest |-> l.dest,
          geo |-> l.geo, ab |-> l.ab]
  /\ l.dest = <<"home">>
  /\ l.geo \in Seq(Rules)
  /\ l.ab \in Seq(Variants)
  /\ Distinct(l.ab)

LinkInv == IsLink(link)

(* A new link has the type of one. *)
LEMMA LinkInit == MCInit => LinkInv
<1> SUFFICES ASSUME MCInit PROVE IsLink(link)
  BY DEF LinkInv
<1>1. link.geo = <<>> /\ link.ab = <<>>
  BY DEF MCInit
<1> QED
  BY <1>1 DEF MCInit, IsLink, Distinct

(* Owners keep the type of a link and the ids of its variants apart. *)
LEMMA LinkStep == LinkInv /\ [MCNext]_link => LinkInv'
<1> SUFFICES ASSUME IsLink(link), MCNext PROVE IsLink(link')
  BY DEF LinkInv
<1>1. ASSUME NEW country \in Countries, NEW place \in 1..Len(link.geo) + 1,
             AddGeoRule(country, place)
      PROVE  IsLink(link')
  <2> DEFINE rule == [country |-> country, dest |-> <<"geo", country>>]
             geo == InsertAt(link.geo, place, rule)
  <2>1. rule \in Rules
    BY DEF Rules
  <2>2. geo \in Seq(Rules)
    BY <2>1 DEF IsLink, InsertAt
  <2>3. link' = [link EXCEPT !.geo = geo]
    BY <1>1 DEF AddGeoRule
  <2> HIDE DEF geo
  <2> QED
    BY <2>2, <2>3 DEF IsLink
<1>2. ASSUME NEW id \in VariantIds, NEW weight \in 1..FullWeight, AddVariant(id, weight)
      PROVE  IsLink(link')
  <2> DEFINE variant == [id |-> id, dest |-> <<"ab", id>>, weight |-> weight]
             ab == Append(link.ab, variant)
  <2>1. variant \in Variants
    BY DEF Variants
  <2>2. ab \in Seq(Variants)
    BY <2>1 DEF IsLink
  <2>3. link' = [link EXCEPT !.ab = ab] /\ \A i \in DOMAIN link.ab : link.ab[i].id # id
    BY <1>2 DEF AddVariant
  <2>4. Distinct(ab)
    BY <2>3 DEF IsLink, Distinct
  <2> HIDE DEF ab
  <2> QED
    BY <2>2, <2>3, <2>4 DEF IsLink
<1>3. CASE Delete
  BY <1>3 DEF Delete, IsLink
<1> QED
  BY <1>1, <1>2, <1>3 DEF MCNext

-----------------------------------------------------------------------------
(* Cumulative weights. The fold that adds them up is computed by a          *)
(* recursion over subsets of the positions; the number of picks that the    *)
(* positions stand for solves it, and a smallest subset on which another    *)
(* solution differed would have a smaller one.                             *)

LEMMA LeastNatural ==
  ASSUME NEW T \in SUBSET Nat, T # {}
  PROVE  \E m \in T : \A k \in T : m <= k
<1>1. IsWellFoundedOn(OpToRel(<, Nat), Nat)
  BY NatLessThanWellFounded
<1>2. PICK m \in T : \A k \in T : ~(<<k, m>> \in OpToRel(<, Nat))
  BY <1>1, WFMin
<1>3. \A k \in T : ~(k < m)
  BY <1>2 DEF OpToRel
<1> QED
  BY <1>3

Weights(f, S) == MapThenSumSet(LAMBDA j : f[j].weight, S)

Weighted(f, S) == IsFiniteSet(S) /\ \A j \in S : f[j].weight \in Nat

Units(f, S) == {u \in S \X Nat : u[2] < f[u[1]].weight}

(* A position stands for as many picks as its weight. *)
LEMMA UnitsOfOne ==
  ASSUME NEW f, NEW j, f[j].weight \in Nat
  PROVE  IsFiniteSet(Units(f, {j})) /\ Cardinality(Units(f, {j})) = f[j].weight
<1> DEFINE w == f[j].weight
           g == [k \in 1..w |-> <<j, k - 1>>]
<1>1. Units(f, {j}) = {<<j, k>> : k \in {k \in Nat : k < w}}
  BY DEF Units
<1>2. \A k \in 1..w : <<j, k - 1>> \in Units(f, {j})
  BY DEF Units
<1>3. \A u \in Units(f, {j}) : u[2] + 1 \in 1..w /\ u = <<j, (u[2] + 1) - 1>>
  BY <1>1
<1>4. g \in Bijection(1..w, Units(f, {j}))
  <2>1. g \in [1..w -> Units(f, {j})]
    BY <1>2
  <2>2. \A k, m \in 1..w : g[k] = g[m] => k = m
    OBVIOUS
  <2>3. \A u \in Units(f, {j}) : \E k \in 1..w : g[k] = u
    BY <1>3
  <2> HIDE DEF g
  <2> QED
    BY <2>1, <2>2, <2>3 DEF Bijection, Injection, Surjection, IsInjective
<1>5. ExistsBijection(1..w, Units(f, {j}))
  BY <1>4 DEF ExistsBijection
<1> QED
  BY <1>5, FS_CountingElements, FS_NatBijection

(* Finitely many positions stand for finitely many picks. *)
LEMMA FiniteUnits ==
  ASSUME NEW f, NEW S, Weighted(f, S)
  PROVE  IsFiniteSet(Units(f, S)) /\ Cardinality(Units(f, S)) \in Nat
<1> DEFINE Parts == {Units(f, {j}) : j \in S}
           g == [j \in S |-> Units(f, {j})]
<1>1. g \in Surjection(S, Parts)
  BY DEF Surjection
<1>2. IsFiniteSet(Parts)
  BY <1>1, FS_Surjection DEF Weighted
<1>3. \A part \in Parts : IsFiniteSet(part)
  BY UnitsOfOne DEF Weighted
<1>4. IsFiniteSet(UNION Parts)
  BY <1>2, <1>3, FS_UNION
<1>5. Units(f, S) \in SUBSET (UNION Parts)
  BY DEF Units
<1> QED
  BY <1>4, <1>5, FS_Subset, FS_CardinalityType

(* A further position adds its weight to the picks. *)
LEMMA UnitsAdd ==
  ASSUME NEW f, NEW S, NEW j, Weighted(f, S), f[j].weight \in Nat, j \notin S
  PROVE  /\ Weighted(f, S \cup {j})
         /\ Cardinality(Units(f, S \cup {j})) = Cardinality(Units(f, S)) + f[j].weight
<1>1. Weighted(f, S \cup {j})
  BY FS_AddElement DEF Weighted
<1>2. Units(f, S \cup {j}) = Units(f, S) \cup Units(f, {j})
  BY DEF Units
<1>3. Units(f, S) \cap Units(f, {j}) = {}
  BY DEF Units
<1>4. IsFiniteSet(Units(f, S)) /\ Cardinality(Units(f, S)) \in Nat
  BY FiniteUnits
<1>5. IsFiniteSet(Units(f, {j})) /\ Cardinality(Units(f, {j})) = f[j].weight
  BY UnitsOfOne
<1>6. Cardinality(Units(f, S) \cup Units(f, {j})) =
        Cardinality(Units(f, S)) + Cardinality(Units(f, {j}))
          - Cardinality(Units(f, S) \cap Units(f, {j}))
  BY <1>4, <1>5, FS_Union
<1>7. Cardinality(Units(f, S) \cap Units(f, {j})) = 0
  BY <1>3, FS_EmptySet
<1>8. Cardinality(Units(f, S \cup {j})) = Cardinality(Units(f, S) \cup Units(f, {j}))
  BY <1>2
<1> HIDE DEF Units
<1>9. Cardinality(Units(f, S \cup {j})) = Cardinality(Units(f, S)) + f[j].weight
  BY <1>4, <1>5, <1>6, <1>7, <1>8
<1> QED
  BY <1>1, <1>9

Some(S) == CHOOSE x \in S : TRUE

SumDef(f, g, S) == IF S = {} THEN 0 ELSE f[Some(S)].weight + g[S \ {Some(S)}]

(* The number of picks solves the recursion that defines the sum. *)
LEMMA UnitsDef ==
  ASSUME NEW f, NEW S, Weighted(f, S), S # {}
  PROVE  /\ Cardinality(S \ {Some(S)}) = Cardinality(S) - 1
         /\ Cardinality(Units(f, S)) = f[Some(S)].weight + Cardinality(Units(f, S \ {Some(S)}))
<1>1. Some(S) \in S
  BY DEF Some
<1>2. Weighted(f, S \ {Some(S)}) /\ Cardinality(S \ {Some(S)}) = Cardinality(S) - 1
  BY <1>1, FS_RemoveElement DEF Weighted
<1>3. S = (S \ {Some(S)}) \cup {Some(S)} /\ f[Some(S)].weight \in Nat
  BY <1>1 DEF Weighted
<1>4. Cardinality(Units(f, (S \ {Some(S)}) \cup {Some(S)})) =
        Cardinality(Units(f, S \ {Some(S)})) + f[Some(S)].weight
  BY <1>2, <1>3, UnitsAdd
<1>5. Cardinality(Units(f, S \ {Some(S)})) \in Nat
  BY <1>2, FiniteUnits
<1>6. Cardinality(Units(f, S)) = Cardinality(Units(f, (S \ {Some(S)}) \cup {Some(S)}))
  BY <1>3
<1> QED
  BY <1>2, <1>3, <1>4, <1>5, <1>6

(* The sum of the weights is the number of picks. *)
LEMMA WeightsAreUnits ==
  ASSUME NEW f, NEW S, Weighted(f, S)
  PROVE  Weights(f, S) = Cardinality(Units(f, S))
<1> DEFINE Recursive(g) == g = [T \in SUBSET S |-> SumDef(f, g, T)]
           w == [T \in SUBSET S |-> Cardinality(Units(f, T))]
           total == CHOOSE g : Recursive(g)
<1>1. Weights(f, S) = total[S]
  BY DEF Weights, MapThenSumSet, MapThenFoldSet, SumDef, Some
<1>2. \A T \in SUBSET S : Weighted(f, T) /\ Cardinality(T) \in Nat
  BY FS_Subset, FS_CardinalityType DEF Weighted
<1>3. Cardinality(Units(f, {})) = 0
  <2>1. Units(f, {}) = {}
    BY DEF Units
  <2> QED
    BY <2>1, FS_EmptySet
<1>4. ASSUME NEW T \in SUBSET S, T # {}
      PROVE  /\ T \ {Some(T)} \in SUBSET S
             /\ Cardinality(T \ {Some(T)}) = Cardinality(T) - 1
             /\ w[T] = f[Some(T)].weight + w[T \ {Some(T)}]
  BY <1>2, <1>4, UnitsDef
<1>5. \A T \in SUBSET S : w[T] = SumDef(f, w, T)
  BY <1>3, <1>4 DEF SumDef
<1>6. Recursive(w)
  <2> HIDE DEF w
  <2>1. w = [T \in SUBSET S |-> w[T]]
    BY DEF w
  <2> QED
    BY <1>5, <2>1
<1>7. Recursive(total)
  <2> HIDE DEF Recursive, w
  <2> QED
    BY <1>6
<1>8. \A T \in SUBSET S : total[T] = SumDef(f, total, T)
  <2> HIDE DEF total
  <2> QED
    BY <1>7
<1> HIDE DEF w, total, Recursive
<1>9. \A T \in SUBSET S : total[T] = w[T]
  <2> DEFINE Wrong == {T \in SUBSET S : total[T] # w[T]}
             Sizes == {Cardinality(T) : T \in Wrong}
  <2> SUFFICES ASSUME Wrong # {} PROVE FALSE
    OBVIOUS
  <2>1. Sizes \in SUBSET Nat /\ Sizes # {}
    BY <1>2
  <2> HIDE DEF Wrong
  <2>2. PICK n \in Sizes : \A m \in Sizes : n <= m
    BY <2>1, LeastNatural
  <2>3. PICK T \in Wrong : n = Cardinality(T)
    BY <2>2
  <2>4. T \in SUBSET S /\ total[T] # w[T] /\ Cardinality(T) \in Nat
    BY <1>2, <2>3 DEF Wrong
  <2>5. T # {}
    BY <1>5, <1>8, <2>4 DEF SumDef
  <2> DEFINE R == T \ {Some(T)}
  <2>6. R \in SUBSET S /\ Cardinality(R) = Cardinality(T) - 1
    BY <1>4, <2>4, <2>5
  <2>7. total[R] # w[R]
    BY <1>5, <1>8, <2>4, <2>5 DEF SumDef
  <2>8. Cardinality(R) \in Sizes
    BY <2>6, <2>7 DEF Wrong
  <2>9. n <= Cardinality(R)
    BY <2>2, <2>8
  <2> QED
    BY <2>3, <2>4, <2>6, <2>9
<1>10. S \in SUBSET S
  OBVIOUS
<1> QED
  BY <1>1, <1>9, <1>10 DEF w

(* Each position adds its weight, so cumulative weights never decrease. *)
LEMMA Cumulation ==
  ASSUME NEW f, NEW n \in Nat, \A j \in 1..n : f[j].weight \in Nat
  PROVE  /\ CumulativeWeight(f, 0) = 0
         /\ \A i \in 0..n : CumulativeWeight(f, i) \in Nat
         /\ \A i \in 1..n :
              CumulativeWeight(f, i) = CumulativeWeight(f, i - 1) + f[i].weight
         /\ \A i, j \in 0..n : i <= j =>
              CumulativeWeight(f, i) <= CumulativeWeight(f, j)
<1> DEFINE sum(i) == CumulativeWeight(f, i)
<1>1. \A i \in 0..n : Weighted(f, 1..i)
  BY FS_Interval DEF Weighted
<1>2. \A i : sum(i) = Weights(f, 1..i)
  BY DEF CumulativeWeight, Weights
<1>3. \A i \in 0..n : sum(i) = Cardinality(Units(f, 1..i)) /\ sum(i) \in Nat
  BY <1>1, <1>2, WeightsAreUnits, FiniteUnits
<1>4. sum(0) = 0
  <2>1. Units(f, 1..0) = {}
    BY DEF Units
  <2>2. Cardinality(Units(f, 1..0)) = Cardinality({})
    BY <2>1
  <2>3. Cardinality({}) = 0
    BY FS_EmptySet
  <2>4. 0 \in 0..n
    OBVIOUS
  <2> HIDE DEF sum
  <2> QED
    BY <1>3, <2>2, <2>3, <2>4
<1>5. ASSUME NEW i \in 1..n PROVE sum(i) = sum(i - 1) + f[i].weight
  <2>1. 1..i = (1..(i - 1)) \cup {i} /\ i \notin 1..(i - 1) /\ i - 1 \in 0..n /\ i \in 0..n
    OBVIOUS
  <2>2. Cardinality(Units(f, (1..(i - 1)) \cup {i})) = Cardinality(Units(f, 1..(i - 1))) + f[i].weight
    BY <1>1, <2>1, UnitsAdd
  <2>3. Cardinality(Units(f, 1..i)) = Cardinality(Units(f, (1..(i - 1)) \cup {i}))
    BY <2>1
  <2> HIDE DEF sum
  <2> QED
    BY <1>3, <2>1, <2>2, <2>3
<1>6. ASSUME NEW i \in 0..n, NEW j \in 0..n, i <= j PROVE sum(i) <= sum(j)
  <2>1. Units(f, 1..i) \in SUBSET Units(f, 1..j)
    BY <1>6 DEF Units
  <2>2. IsFiniteSet(Units(f, 1..j))
    BY <1>1, FiniteUnits
  <2> QED
    BY <1>3, <2>1, <2>2, FS_Subset
<1> QED
  BY <1>3, <1>4, <1>5, <1>6

Cumulative(variants, i) == CumulativeWeight(variants, i)

(* The walk stops at the variant in whose share the pick lies. *)
LEMMA Selection ==
  ASSUME NEW variants \in Seq(Variants), NEW p \in 0..TotalWeight(variants) - 1
  PROVE  \E i \in DOMAIN variants :
           /\ SelectABVariant(variants, p) = variants[i]
           /\ Cumulative(variants, i - 1) <= p
           /\ p < Cumulative(variants, i)
<1> DEFINE n == Len(variants)
           sum(i) == Cumulative(variants, i)
           Past == {i \in DOMAIN variants : p < sum(i)}
<1>1. n \in Nat /\ DOMAIN variants = 1..n /\ \A j \in 1..n : variants[j].weight \in Nat
  BY DEF Variants
<1>2. sum(0) = 0 /\ \A i \in 0..n : sum(i) \in Nat
  BY <1>1, Cumulation DEF Cumulative
<1>3. p \in Int /\ 0 <= p /\ p < sum(n)
  BY <1>1, <1>2 DEF TotalWeight, Cumulative
<1>4. SelectABVariant(variants, p) = variants[Min(Past)]
  BY DEF SelectABVariant, Cumulative
<1> HIDE DEF n, sum
<1>5. n \in Past
  BY <1>1, <1>2, <1>3
<1>6. Past \in SUBSET Nat /\ Past # {}
  BY <1>1, <1>5
<1> HIDE DEF Past
<1>7. PICK m \in Past : \A k \in Past : m <= k
  BY <1>6, LeastNatural
<1>8. Min(Past) = m
  <2>1. Min(Past) \in Past /\ \A k \in Past : Min(Past) <= k
    BY <1>7 DEF Min
  <2>2. Min(Past) \in Nat /\ m \in Nat
    BY <1>6, <2>1
  <2>3. Min(Past) <= m /\ m <= Min(Past)
    BY <1>7, <2>1
  <2> QED
    BY <2>2, <2>3
<1>9. m \in 1..n /\ p < sum(m)
  BY <1>1, <1>7 DEF Past
<1>10. sum(m - 1) <= p
  <2>1. CASE m = 1
    BY <1>2, <1>3, <2>1
  <2>2. CASE m # 1
    <3>1. m - 1 \in 1..n /\ m - 1 \in 0..n /\ ~(m <= m - 1)
      BY <1>1, <1>9, <2>2
    <3>2. m - 1 \notin Past
      BY <1>7, <3>1
    <3>3. ~(p < sum(m - 1))
      BY <1>1, <3>1, <3>2 DEF Past
    <3> QED
      BY <1>2, <1>3, <3>1, <3>3
  <2> QED
    BY <2>1, <2>2
<1> QED
  BY <1>1, <1>4, <1>8, <1>9, <1>10 DEF sum

(* The picks that draw a variant are the interval of its share. *)
LEMMA Share ==
  ASSUME NEW variants \in Seq(Variants), Distinct(variants), NEW i \in DOMAIN variants
  PROVE  LET drawn == {p \in 0..TotalWeight(variants) - 1 :
                         SelectABVariant(variants, p).id = variants[i].id}
         IN  /\ drawn = Cumulative(variants, i - 1)..Cumulative(variants, i) - 1
             /\ Cardinality(drawn) = variants[i].weight
<1> DEFINE n == Len(variants)
           sum(j) == Cumulative(variants, j)
           drawn == {p \in 0..sum(n) - 1 :
                       SelectABVariant(variants, p).id = variants[i].id}
<1>1. n \in Nat /\ DOMAIN variants = 1..n /\ \A j \in 1..n : variants[j].weight \in Nat
  BY DEF Variants
<1>2. /\ \A j \in 0..n : sum(j) \in Nat
      /\ \A j \in 1..n : sum(j) = sum(j - 1) + variants[j].weight
      /\ \A j, k \in 0..n : j <= k => sum(j) <= sum(k)
  <2> HIDE DEF n
  <2> QED
    BY <1>1, Cumulation DEF Cumulative
<1>3. TotalWeight(variants) = sum(n)
  BY DEF TotalWeight, Cumulative
<1>4. \A p \in 0..sum(n) - 1 :
        \E j \in DOMAIN variants : /\ SelectABVariant(variants, p) = variants[j]
                                   /\ sum(j - 1) <= p
                                   /\ p < sum(j)
  BY <1>3, Selection
<1> HIDE DEF sum, n
<1>5. i \in 1..n /\ i \in 0..n /\ i - 1 \in 0..n /\ n \in 0..n
  BY <1>1
<1>6. ASSUME NEW p \in drawn PROVE p \in sum(i - 1)..sum(i) - 1
  <2>1. PICK j \in DOMAIN variants : /\ SelectABVariant(variants, p) = variants[j]
                                     /\ sum(j - 1) <= p
                                     /\ p < sum(j)
    BY <1>4
  <2>2. j = i
    BY <2>1 DEF Distinct
  <2> QED
    BY <1>2, <1>5, <2>1, <2>2
<1>7. ASSUME NEW p \in sum(i - 1)..sum(i) - 1 PROVE p \in drawn
  <2>1. sum(i - 1) \in Nat /\ sum(i) \in Nat /\ sum(n) \in Nat /\ sum(i) <= sum(n)
    BY <1>1, <1>2, <1>5
  <2>2. p \in 0..sum(n) - 1
    BY <2>1
  <2>3. PICK j \in DOMAIN variants : /\ SelectABVariant(variants, p) = variants[j]
                                     /\ sum(j - 1) <= p
                                     /\ p < sum(j)
    BY <1>4, <2>2
  <2>4. j \in 1..n /\ j \in 0..n /\ j - 1 \in 0..n
    BY <1>1
  <2>5. ~(j <= i - 1)
    <3>1. j <= i - 1 => sum(j) <= sum(i - 1)
      BY <1>2, <1>5, <2>4
    <3>2. sum(j) \in Nat /\ p \in Int /\ sum(i - 1) <= p
      BY <1>2, <2>1, <2>4
    <3> QED
      BY <2>1, <2>3, <3>1, <3>2
  <2>6. ~(i <= j - 1)
    <3>1. i <= j - 1 => sum(i) <= sum(j - 1)
      BY <1>2, <1>5, <2>4
    <3>2. sum(j - 1) \in Nat /\ p \in Int /\ p < sum(i)
      BY <1>2, <2>1, <2>4
    <3> QED
      BY <2>1, <2>3, <3>1, <3>2
  <2>7. i = j
    BY <1>1, <1>5, <2>4, <2>5, <2>6
  <2> QED
    BY <2>2, <2>3, <2>7
<1> HIDE DEF drawn
<1>8. drawn = sum(i - 1)..sum(i) - 1
  <2>1. \A p \in drawn : p \in sum(i - 1)..sum(i) - 1
    BY <1>6
  <2>2. \A p \in sum(i - 1)..sum(i) - 1 : p \in drawn
    BY <1>7
  <2> QED
    BY <2>1, <2>2
<1>9. sum(i - 1) \in Nat /\ sum(i) \in Nat /\ variants[i].weight \in Nat
      /\ sum(i) = sum(i - 1) + variants[i].weight
  BY <1>1, <1>2, <1>5
<1>10. Cardinality(sum(i - 1)..sum(i) - 1) = variants[i].weight
  <2>1. sum(i - 1) \in Int /\ sum(i) - 1 \in Int
    BY <1>9
  <2>2. Cardinality(sum(i - 1)..sum(i) - 1) =
          IF sum(i - 1) > sum(i) - 1 THEN 0 ELSE (sum(i) - 1) - sum(i - 1) + 1
    BY <2>1, FS_Interval
  <2> QED
    BY <1>9, <2>2
<1>11. Cardinality(drawn) = variants[i].weight
  BY <1>8, <1>10
<1> QED
  BY <1>3, <1>8, <1>11 DEF drawn, sum

(* Every variant is drawn by exactly its weight's number of picks.         *)
THEOREM Shares == MCSpec => []PicksMatchWeights
<1>1. LinkInv => PicksMatchWeights
  <2> SUFFICES ASSUME IsLink(link), NEW i \in DOMAIN link.ab
               PROVE  LET drawn == {p \in Picks :
                                      SelectABVariant(link.ab, p).id = link.ab[i].id}
                      IN  Cardinality(drawn) = link.ab[i].weight
    BY DEF PicksMatchWeights, LinkInv
  <2>1. link.ab \in Seq(Variants) /\ Distinct(link.ab) /\ link.ab # <<>>
    BY DEF IsLink
  <2>2. Picks = 0..TotalWeight(link.ab) - 1
    BY <2>1 DEF Picks
  <2> QED
    BY <2>1, <2>2, Share
<1> QED
  BY <1>1, LinkInit, LinkStep, PTL DEF MCSpec

(* A redirect is attributed to the variant whose destination it sends.     *)
THEOREM Attributed == MCSpec => []ClickAttribution
<1> DEFINE Fair(a) ==
      a.error = "none" =>
        \/ a.variant = NoVariant /\ a.dest \notin {link.ab[i].dest : i \in DOMAIN link.ab}
        \/ \E i \in DOMAIN link.ab : link.ab[i].id = a.variant /\ link.ab[i].dest = a.dest
<1>1. ASSUME IsLink(link), NEW country, NEW p \in Picks
      PROVE  Fair(Destination(link, country, p))
  <2> DEFINE rules == MatchingRules(link.geo, country)
             sent == Destination(link, country, p)
  <2>1. link.ab \in Seq(Variants) /\ link.geo \in Seq(Rules) /\ link.dest = <<"home">>
    BY <1>1 DEF IsLink
  <2>2. \A i \in DOMAIN link.ab : \E id : link.ab[i].dest = <<"ab", id>>
    BY <2>1 DEF Variants
  <2>3. CASE rules # {}
    <3>1. rules \in SUBSET Nat /\ rules \in SUBSET DOMAIN link.geo
      BY <2>1 DEF MatchingRules
    <3>2. PICK m \in rules : \A k \in rules : m <= k
      BY <2>3, <3>1, LeastNatural
    <3>3. Min(rules) \in rules
      BY <3>2 DEF Min
    <3>4. \E c : link.geo[Min(rules)].dest = <<"geo", c>>
      <4>1. \A i \in DOMAIN link.geo : \E c : link.geo[i].dest = <<"geo", c>>
        <5>1. \A i \in DOMAIN link.geo : link.geo[i] \in Rules
          BY <2>1
        <5>2. \A rule \in Rules : rule.dest \in {<<"geo", c>> : c \in Countries}
          BY DEF Rules
        <5>3. \A dest \in {<<"geo", c>> : c \in Countries} : \E c : dest = <<"geo", c>>
          OBVIOUS
        <5> QED
          BY <5>1, <5>2, <5>3
      <4>2. Min(rules) \in DOMAIN link.geo
        BY <3>1, <3>3
      <4> QED
        BY <4>1, <4>2
    <3>5. sent = Sends(Found, link.geo[Min(rules)].dest, NoVariant)
      BY <2>3 DEF Destination
    <3> HIDE DEF sent, rules
    <3>6. sent.variant = NoVariant /\ \E c : sent.dest = <<"geo", c>>
      BY <3>4, <3>5 DEF Sends
    <3>7. sent.dest \notin {link.ab[i].dest : i \in DOMAIN link.ab}
      BY <2>2, <3>6
    <3> QED
      BY <3>6, <3>7 DEF sent
  <2>4. CASE rules = {} /\ link.ab # <<>>
    <3>1. p \in 0..TotalWeight(link.ab) - 1
      BY <2>4 DEF Picks
    <3>2. PICK i \in DOMAIN link.ab : SelectABVariant(link.ab, p) = link.ab[i]
      BY <2>1, <3>1, Selection
    <3>3. sent = Sends(Found, link.ab[i].dest, link.ab[i].id)
      BY <2>4, <3>2 DEF Destination
    <3> HIDE DEF sent
    <3>4. sent.variant = link.ab[i].id /\ sent.dest = link.ab[i].dest
      BY <3>3 DEF Sends
    <3> QED
      BY <3>4 DEF sent
  <2>5. CASE rules = {} /\ link.ab = <<>>
    <3>1. sent = Sends(Permanent, link.dest, NoVariant)
      BY <2>5 DEF Destination
    <3>2. DOMAIN link.ab = {}
      BY <2>5
    <3> HIDE DEF sent
    <3>3. sent.variant = NoVariant
      BY <3>1 DEF Sends
    <3>4. sent.dest \notin {link.ab[i].dest : i \in DOMAIN link.ab}
      BY <3>2
    <3> QED
      BY <3>3, <3>4 DEF sent
  <2> QED
    BY <2>3, <2>4, <2>5
<1>2. ASSUME IsLink(link), NEW visit, NEW p \in Picks
      PROVE  Fair(Redirect(link, visit, p))
  <2> HIDE DEF Fair
  <2>1. Fair(Destination(link, visit.country, p))
    BY <1>1, <1>2
  <2>2. Refusal(link, visit) # "none" => Fair(Fails(Refusal(link, visit)))
    BY DEF Fair, Fails
  <2> QED
    BY <2>1, <2>2 DEF Redirect
<1>3. LinkInv => ClickAttribution
  <2> SUFFICES ASSUME IsLink(link), NEW a \in Answers PROVE Fair(a)
    BY DEF ClickAttribution, LinkInv
  <2> HIDE DEF Fair
  <2>1. \/ \E v \in Visits, p \in Picks : a = Redirect(link, v, p)
        \/ \E v \in Visits, p \in Picks :
             a = UnlockWithPassword(link, v.password, p)
    BY DEF Answers
  <2>2. CASE \E v \in Visits, p \in Picks : a = Redirect(link, v, p)
    BY <1>2, <2>2
  <2>3. CASE \E v \in Visits, p \in Picks :
               a = UnlockWithPassword(link, v.password, p)
    BY <1>2, <2>3 DEF UnlockWithPassword
  <2> QED
    BY <2>1, <2>2, <2>3
<1> QED
  BY <1>3, LinkInit, LinkStep, PTL DEF MCSpec
=============================================================================
