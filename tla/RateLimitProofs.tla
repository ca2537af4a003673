--------------------------- MODULE RateLimitProofs ---------------------------
(***************************************************************************)
(* Proofs about RateLimit, for any number of clients and requests and any  *)
(* limit, window and timeout. Every part of the invariant is about the     *)
(* key and the requests of one client.                                     *)
(***************************************************************************)
EXTENDS RateLimit, FiniteSetTheorems, TLAPS

Mine(c) == {i \in Calls : calls[i].client = c}

Numbered == \E n \in 0..MaxCalls : calls \in [1..n -> Call]

TypeInv == Numbered /\ key \in [Clients -> Key \cup {Absent}]

NoCut(c) == \A i \in Mine(c) : calls[i].pc # "cut"

(* A key without a cut pipeline is there for a request that is under way,  *)
(* or it goes away before a whole window of silence has passed.            *)
Kept(c) ==
  key[c] # Absent /\ NoCut(c) =>
    \/ \E i \in Mine(c) : UnderWay(i)
    \/ key[c].ttl # NoTTL /\ \E i \in Mine(c) : calls[i].age + key[c].ttl <= Window

Prompt(i) == UnderWay(i) => calls[i].age <= Patience

(* A request that has met no other is the only one under way.              *)
Alone(c, i) ==
  UnderWay(i) /\ calls[i].recent = {} => \A j \in Mine(c) : UnderWay(j) => j = i

(* And the count is then of its own making.                                *)
Forgiven(c, i) ==
  calls[i].recent = {} /\ NoCut(c) =>
    /\ calls[i].pc # "refused"
    /\ UnderWay(i) => /\ calls[i].count <= calls[i].sends
                      /\ key[c] # Absent => key[c].count <= calls[i].sends

(* Requests that the key still counts. *)
Live(i) ==
  /\ ~calls[i].straddled
  /\ UnderWay(i) \/ (calls[i].pc = "admitted" /\ calls[i].age < Window)

Tallied(c, i) ==
  /\ calls[i].pc = "admitted" => calls[i].count <= Limit
  /\ Live(i) =>
       /\ key[c] # Absent /\ calls[i].count \in 1..key[c].count
       /\ calls[i].pc = "admitted" => key[c].ttl = NoTTL \/ Window <= calls[i].age + key[c].ttl

(* No two of them got the same count from INCR. *)
Apart(c) ==
  \A i, j \in Mine(c) : Live(i) /\ Live(j) /\ calls[i].count = calls[j].count => i = j

ClientInv(c) ==
  /\ Kept(c) /\ Apart(c)
  /\ \A i \in Mine(c) : Prompt(i) /\ Alone(c, i) /\ Forgiven(c, i) /\ Tallied(c, i)

IInv == TypeInv /\ \A c \in Clients : ClientInv(c)

-----------------------------------------------------------------------------
(* The constants are numbers in their order. *)
LEMMA Numbers ==
  /\ Limit \in Nat /\ Window \in Nat /\ Window > 0 /\ Patience \in Nat /\ Patience < Window
  /\ MaxSends \in Nat /\ 1 <= MaxSends /\ MaxSends <= Limit /\ MaxCalls \in Nat
  /\ NoTTL \notin Nat
BY LimitAssumption

(* What INCR makes of a key. *)
LEMMA CountedKey ==
  ASSUME NEW k \in Key \cup {Absent}
  PROVE  /\ Counted(k) \in Key /\ Counted(k) # Absent
         /\ k = Absent => Counted(k).count = 1
         /\ k # Absent => Counted(k).count = k.count + 1 /\ Counted(k).ttl = k.ttl
         /\ k # Absent => k.count \in Nat /\ k.count > 0
BY AbsentAssumption DEF Counted, Key

(* What EXPIRE makes of a key. *)
LEMMA ExpiredKey ==
  ASSUME NEW k \in Key \cup {Absent}
  PROVE  /\ Expired(k) \in Key \cup {Absent} /\ (Expired(k) = Absent <=> k = Absent)
         /\ k # Absent => Expired(k).count = k.count /\ Expired(k).ttl = Window
<1>1. CASE k = Absent
  BY <1>1 DEF Expired
<1>2. CASE k # Absent
  <2>1. Expired(k) = [k EXCEPT !.ttl = Window] /\ k \in Key
    BY <1>2 DEF Expired
  <2>2. Expired(k) \in Key /\ Expired(k).count = k.count /\ Expired(k).ttl = Window
    BY <2>1, Numbers DEF Key
  <2> QED
    BY <1>2, <2>2, AbsentAssumption
<1> QED
  BY <1>1, <1>2

(* What a tick makes of a key. *)
LEMMA OlderKey ==
  ASSUME NEW k \in Key \cup {Absent}
  PROVE  /\ Older(k) \in Key \cup {Absent}
         /\ k = Absent => Older(k) = Absent
         /\ k # Absent => Older(k) = Absent <=> k.ttl = 1
         /\ Older(k) # Absent => Older(k).count = k.count
         /\ Older(k) # Absent /\ k.ttl = NoTTL => Older(k).ttl = NoTTL
         /\ Older(k) # Absent /\ k.ttl # NoTTL => k.ttl \in Nat /\ Older(k).ttl = k.ttl - 1
<1>1. CASE k = Absent
  BY <1>1 DEF Older
<1>2. CASE k # Absent /\ k.ttl = 1
  <2>1. Older(k) = Absent
    BY <1>2 DEF Older
  <2> QED
    BY <1>2, <2>1
<1>3. CASE k # Absent /\ k.ttl # 1 /\ k.ttl = NoTTL
  <2>1. Older(k) = k
    BY <1>3 DEF Older
  <2> QED
    BY <1>3, <2>1
<1>4. CASE k # Absent /\ k.ttl # 1 /\ k.ttl # NoTTL
  <2>1. Older(k) = [k EXCEPT !.ttl = @ - 1] /\ k \in Key
    BY <1>4 DEF Older
  <2>2. k.ttl \in 1..Window
    BY <1>4, <2>1 DEF Key
  <2>3. k.ttl - 1 \in 1..Window /\ k.ttl \in Nat /\ k.ttl - 1 # NoTTL
    BY <1>4, <2>2, Numbers
  <2>4. Older(k) \in Key /\ Older(k).count = k.count /\ Older(k).ttl = k.ttl - 1
    BY <2>1, <2>3 DEF Key
  <2> QED
    BY <1>4, <2>3, <2>4, AbsentAssumption
<1> QED
  BY <1>1, <1>2, <1>3, <1>4

(* The calls are numbered from one and every client has a key or none. *)
LEMMA Types ==
  ASSUME TypeInv
  PROVE  /\ \A i \in Calls : calls[i] \in Call /\ i \in Nat
         /\ \A c \in Clients : key[c] \in Key \cup {Absent}
         /\ Cardinality(Calls) \in 0..MaxCalls /\ Cardinality(Calls) + 1 \notin Calls
         /\ calls \in [1..Cardinality(Calls) -> Call]
<1>1. PICK n \in 0..MaxCalls : calls \in [1..n -> Call]
  BY DEF TypeInv, Numbered
<1>2. Cardinality(Calls) = n
  BY <1>1, FS_Interval DEF Calls
<1> QED
  BY <1>1, <1>2, Numbers DEF TypeInv, Calls

(* The inductive invariant holds initially. *)
LEMMA InitInv == Init => IInv
<1> SUFFICES ASSUME Init PROVE IInv
  OBVIOUS
<1>1. calls = <<>> /\ Calls = {} /\ key = [c \in Clients |-> Absent]
  BY DEF Init, Calls
<1>2. calls \in [1..0 -> Call]
  BY <1>1
<1>3. TypeInv
  BY <1>1, <1>2, Numbers DEF TypeInv, Numbered
<1>4. ASSUME NEW c \in Clients PROVE ClientInv(c)
  <2>1. Mine(c) = {} /\ key[c] = Absent
    BY <1>1 DEF Mine
  <2> QED
    BY <2>1 DEF ClientInv, Kept, Apart
<1> QED
  BY <1>3, <1>4 DEF IInv

-----------------------------------------------------------------------------
(* What a step for client c leaves alone: the keys and requests of others. *)
Own(c) ==
  /\ \A d \in Clients \ {c} : key'[d] = key[d]
  /\ \A i \in Calls :
       /\ i \in Calls' /\ calls'[i].client = calls[i].client
       /\ calls[i].client # c => calls'[i] = calls[i]
  /\ \A i \in Calls' : i \in Calls \/ calls'[i].client = c

(* A step of one client keeps the invariant of the others. *)
LEMMA OtherClients ==
  ASSUME NEW c \in Clients, Own(c), NEW d \in Clients \ {c}, ClientInv(d)
  PROVE  ClientInv(d)'
<1>1. key'[d] = key[d] /\ \A i \in Mine(d) : calls'[i] = calls[i]
  BY DEF Own, Mine
<1>2. Mine(d)' = Mine(d)
  BY DEF Own, Mine
<1>3. NoCut(d)' <=> NoCut(d)
  BY <1>1, <1>2 DEF NoCut
<1>4. Kept(d)'
  BY <1>1, <1>2, <1>3 DEF ClientInv, Kept, UnderWay
<1>5. \A i \in Mine(d) : (UnderWay(i)' <=> UnderWay(i)) /\ (Live(i)' <=> Live(i))
  BY <1>1 DEF UnderWay, Live
<1>6. Apart(d)'
  BY <1>1, <1>2, <1>5 DEF ClientInv, Apart
<1>7. ASSUME NEW i \in Mine(d)
      PROVE  Prompt(i)' /\ Alone(d, i)' /\ Forgiven(d, i)' /\ Tallied(d, i)'
  <2>1. Prompt(i) /\ Alone(d, i) /\ Forgiven(d, i) /\ Tallied(d, i)
    BY DEF ClientInv
  <2>2. calls'[i] = calls[i]
    BY <1>1
  <2>3. Prompt(i)' /\ Alone(d, i)'
    BY <1>2, <1>5, <2>1, <2>2 DEF Prompt, Alone
  <2>4. Forgiven(d, i)'
    BY <1>1, <1>3, <1>5, <2>1, <2>2 DEF Forgiven
  <2>5. Tallied(d, i)'
    BY <1>1, <1>5, <2>1, <2>2 DEF Tallied
  <2> QED
    BY <2>3, <2>4, <2>5
<1> QED
  BY <1>2, <1>4, <1>6, <1>7 DEF ClientInv

(* A step of one client that keeps its own invariant keeps the whole. *)
LEMMA OwnStep ==
  ASSUME IInv, NEW c \in Clients, Own(c), TypeInv', ClientInv(c)'
  PROVE  IInv'
BY OtherClients DEF IInv

-----------------------------------------------------------------------------
(* A request that arrives.                                                 *)

Arrived(c, n, new) ==
  /\ n \in Nat /\ n \notin Calls /\ Calls' = Calls \cup {n} /\ calls'[n] = new
  /\ \A i \in Calls :
       /\ calls'[i].client = calls[i].client /\ calls'[i].pc = calls[i].pc
       /\ calls'[i].count = calls[i].count /\ calls'[i].sends = calls[i].sends
       /\ calls'[i].age = calls[i].age /\ calls'[i].straddled = calls[i].straddled
       /\ IF calls[i].client = c /\ UnderWay(i) THEN calls'[i].recent # {}
          ELSE calls'[i] = calls[i]

New(c, pc, count, sends) ==
  [client |-> c, pc |-> pc, count |-> count, sends |-> sends, age |-> 0,
   recent |-> Recent(c), straddled |-> FALSE]

(* A new call is numbered after the others. *)
LEMMA NewCallType ==
  ASSUME TypeInv, NEW c \in Clients, NEW pc \in {"incremented", "unheard"}, NEW count \in Nat,
         NEW sends \in 0..MaxSends, Cardinality(Calls) < MaxCalls, NewCall(c, pc, count, sends)
  PROVE  /\ Numbered'
         /\ \E n, new : new = New(c, pc, count, sends) /\ Arrived(c, n, new)
<1> DEFINE n == Cardinality(Calls)
           m == n + 1
           new == New(c, pc, count, sends)
           joined(i) == IF calls[i].client = c /\ UnderWay(i)
                        THEN [calls[i] EXCEPT !.recent = @ \cup {m}] ELSE calls[i]
<1>1. /\ n \in 0..MaxCalls /\ m \notin Calls /\ calls \in [1..n -> Call] /\ Calls = 1..n
      /\ \A i \in Calls : calls[i] \in Call /\ i \in Nat
  BY Types DEF Calls
<1>2. m \in Nat /\ m \in 0..MaxCalls /\ 1..m = Calls \cup {m}
  BY <1>1, Numbers
<1>3. calls' = [i \in Calls \cup {m} |-> IF i = m THEN new ELSE joined(i)]
  BY DEF NewCall, New
<1>4. Recent(c) \subseteq Nat
  BY <1>1 DEF Recent
<1>5. new \in Call
  BY <1>4, Numbers DEF New, Call
<1>6. ASSUME NEW i \in Calls
      PROVE  /\ joined(i) \in Call
             /\ joined(i).client = calls[i].client /\ joined(i).pc = calls[i].pc
             /\ joined(i).count = calls[i].count /\ joined(i).sends = calls[i].sends
             /\ joined(i).age = calls[i].age /\ joined(i).straddled = calls[i].straddled
             /\ IF calls[i].client = c /\ UnderWay(i) THEN joined(i).recent # {}
                ELSE joined(i) = calls[i]
  <2>1. calls[i] \in Call
    BY <1>1
  <2> HIDE DEF n, m
  <2> QED
    BY <1>2, <2>1 DEF Call
<1> HIDE DEF n, m, new, joined
<1>7. \A i \in Calls : calls'[i] = joined(i)
  BY <1>1, <1>3
<1>8. calls' \in [1..m -> Call]
  BY <1>2, <1>3, <1>5, <1>6
<1>9. Numbered'
  BY <1>2, <1>8 DEF Numbered
<1>10. Calls' = Calls \cup {m} /\ calls'[m] = new
  BY <1>3 DEF Calls
<1>11. Arrived(c, m, new)
  BY <1>1, <1>2, <1>6, <1>7, <1>10 DEF Arrived
<1> QED
  BY <1>9, <1>11 DEF n, m, new

(* A new call concerns its own client alone. *)
LEMMA ArrivedOwn ==
  ASSUME NEW c \in Clients, NEW n, NEW new, new.client = c, Arrived(c, n, new),
         \A d \in Clients \ {c} : key'[d] = key[d]
  PROVE  /\ Own(c) /\ Mine(c)' = Mine(c) \cup {n} /\ n \notin Mine(c) /\ n \in Mine(c)'
BY DEF Arrived, Own, Mine

(* What the arrival means to the requests that are there. *)
LEMMA ArrivedOthers ==
  ASSUME NEW c \in Clients, ClientInv(c), NEW n, NEW new, new.client = c, Arrived(c, n, new),
         NEW i \in Mine(c)
  PROVE  /\ UnderWay(i)' <=> UnderWay(i)
         /\ Live(i)' <=> Live(i)
         /\ calls'[i].pc = calls[i].pc /\ calls'[i].count = calls[i].count
         /\ calls'[i].age = calls[i].age /\ calls'[i].sends = calls[i].sends
         /\ Prompt(i)'
         /\ Alone(c, i)'
         /\ calls'[i].recent = {} => ~UnderWay(i) /\ calls[i].recent = {}
<1>1. i \in Calls /\ calls[i].client = c
  BY DEF Mine
<1>2. /\ calls'[i].pc = calls[i].pc /\ calls'[i].count = calls[i].count
      /\ calls'[i].age = calls[i].age /\ calls'[i].straddled = calls[i].straddled
      /\ calls'[i].sends = calls[i].sends
      /\ IF UnderWay(i) THEN calls'[i].recent # {} ELSE calls'[i] = calls[i]
  BY <1>1 DEF Arrived
<1>3. (UnderWay(i)' <=> UnderWay(i)) /\ (Live(i)' <=> Live(i))
  BY <1>2 DEF UnderWay, Live
<1>4. Prompt(i)'
  BY <1>2, <1>3 DEF ClientInv, Prompt
<1>5. calls'[i].recent = {} => ~UnderWay(i) /\ calls[i].recent = {}
  BY <1>2
<1>6. Alone(c, i)'
  BY <1>3, <1>5 DEF Alone
<1> QED
  BY <1>2, <1>3, <1>4, <1>5, <1>6

(* A call that Redis never hears preserves the inductive invariant. *)
LEMMA FailOpenInv ==
  ASSUME IInv, NEW c \in Clients, FailOpen(c)
  PROVE  IInv'
<1>1. TypeInv /\ ClientInv(c) /\ key' = key
  BY DEF IInv, FailOpen
<1>2. Numbered' /\ \E n, new : new = New(c, "unheard", 0, 0) /\ Arrived(c, n, new)
  BY <1>1, NewCallType, Numbers DEF FailOpen
<1> PICK n, new : new = New(c, "unheard", 0, 0) /\ Arrived(c, n, new)
  BY <1>2
<1>3. TypeInv'
  BY <1>1, <1>2 DEF TypeInv
<1>4. new.client = c /\ new.pc = "unheard"
  BY DEF New
<1>5. Own(c) /\ Mine(c)' = Mine(c) \cup {n} /\ n \notin Mine(c) /\ n \in Mine(c)'
  BY <1>1, <1>2, <1>4, ArrivedOwn
<1>6. calls'[n].pc = "unheard" /\ ~UnderWay(n)' /\ ~Live(n)'
  BY <1>2, <1>4 DEF Arrived, UnderWay, Live
<1>7. NoCut(c)' => NoCut(c)
  BY <1>1, <1>2, <1>4, <1>5, ArrivedOthers DEF NoCut
<1>8. Kept(c)'
  <2>1. Kept(c)
    BY <1>1 DEF ClientInv
  <2> QED
    BY <1>1, <1>2, <1>4, <1>5, <1>7, <2>1, ArrivedOthers DEF Kept
<1>9. Apart(c)'
  BY <1>1, <1>2, <1>4, <1>5, <1>6, ArrivedOthers DEF ClientInv, Apart
<1>10. ASSUME NEW i \in Mine(c)
       PROVE  Prompt(i)' /\ Alone(c, i)' /\ Forgiven(c, i)' /\ Tallied(c, i)'
  <2>1. Forgiven(c, i) /\ Tallied(c, i)
    BY <1>1 DEF ClientInv
  <2>2. /\ UnderWay(i)' <=> UnderWay(i)
        /\ Live(i)' <=> Live(i)
        /\ calls'[i].pc = calls[i].pc /\ calls'[i].count = calls[i].count
        /\ calls'[i].age = calls[i].age
        /\ Prompt(i)' /\ Alone(c, i)'
        /\ calls'[i].recent = {} => ~UnderWay(i) /\ calls[i].recent = {}
    BY <1>1, <1>2, <1>4, ArrivedOthers
  <2>3. Forgiven(c, i)'
    BY <1>7, <2>1, <2>2 DEF Forgiven
  <2>4. Tallied(c, i)'
    BY <1>1, <2>1, <2>2 DEF Tallied
  <2> QED
    BY <2>2, <2>3, <2>4
<1>11. Prompt(n)' /\ Alone(c, n)' /\ Forgiven(c, n)' /\ Tallied(c, n)'
  BY <1>6 DEF Prompt, Alone, Forgiven, Tallied
<1>12. ClientInv(c)'
  BY <1>5, <1>8, <1>9, <1>10, <1>11 DEF ClientInv
<1> QED
  BY <1>3, <1>5, <1>12, OwnStep

(* Who is under way is recent. *)
LEMMA UnderWayIsRecent ==
  ASSUME IInv, NEW c \in Clients, Recent(c) = {}
  PROVE  /\ \A i \in Mine(c) : ~UnderWay(i)
         /\ NoCut(c) => key[c] = Absent
<1>1. \A i \in Mine(c) : calls[i].age \in Nat /\ ~(calls[i].age < Window)
  BY Types DEF IInv, Mine, Recent, Call
<1>2. \A i \in Mine(c) : ~UnderWay(i)
  BY <1>1, Numbers DEF IInv, ClientInv, Prompt
<1>3. ASSUME NoCut(c), key[c] # Absent PROVE FALSE
  <2>1. key[c].ttl # NoTTL /\ \E i \in Mine(c) : calls[i].age + key[c].ttl <= Window
    BY <1>2, <1>3 DEF IInv, ClientInv, Kept
  <2>2. key[c] \in Key
    BY <1>3, Types DEF IInv
  <2>3. key[c].ttl \in 1..Window
    BY <2>1, <2>2 DEF Key
  <2> QED
    BY <1>1, <2>1, <2>3, Numbers
<1> QED
  BY <1>2, <1>3

(* A new call that is counted preserves the inductive invariant. *)
LEMMA IncrInv ==
  ASSUME IInv, NEW c \in Clients, Incr(c)
  PROVE  IInv'
<1> DEFINE k == key[c]
           l == Counted(k)
<1>1. TypeInv /\ ClientInv(c) /\ key' = [key EXCEPT ![c] = l]
  BY DEF IInv, Incr
<1>2. k \in Key \cup {Absent} /\ key \in [Clients -> Key \cup {Absent}]
  BY <1>1 DEF TypeInv
<1>3. /\ l \in Key /\ l # Absent
      /\ k = Absent => l.count = 1
      /\ k # Absent => l.count = k.count + 1 /\ l.ttl = k.ttl /\ k.count \in Nat /\ k.count > 0
  BY <1>2, CountedKey
<1>4. l.count \in Nat /\ l.count > 0
  BY <1>3 DEF Key
<1>5. Numbered' /\ \E n, new : new = New(c, "incremented", l.count, 1) /\ Arrived(c, n, new)
  <2> DEFINE count == l.count
  <2>1. NewCall(c, "incremented", count, 1) /\ Cardinality(Calls) < MaxCalls /\ count \in Nat
        /\ 1 \in 0..MaxSends
    BY <1>4, Numbers DEF Incr
  <2> HIDE DEF count
  <2>2. Numbered' /\ \E n, new : new = New(c, "incremented", count, 1) /\ Arrived(c, n, new)
    BY <1>1, <2>1, NewCallType
  <2> QED
    BY <2>2 DEF count
<1> PICK n, new : new = New(c, "incremented", l.count, 1) /\ Arrived(c, n, new)
  BY <1>5
<1>6. /\ new.client = c /\ new.pc = "incremented" /\ new.count = l.count /\ new.sends = 1
      /\ new.age = 0 /\ new.recent = Recent(c) /\ new.straddled = FALSE
  BY DEF New
<1> HIDE DEF k, l
<1>7. key'[c] = l /\ (\A d \in Clients \ {c} : key'[d] = key[d])
      /\ key' \in [Clients -> Key \cup {Absent}]
  BY <1>1, <1>2, <1>3
<1>8. TypeInv'
  BY <1>5, <1>7 DEF TypeInv
<1>9. Own(c) /\ Mine(c)' = Mine(c) \cup {n} /\ n \notin Mine(c) /\ n \in Mine(c)'
  BY <1>6, <1>7, ArrivedOwn
<1>10. calls'[n] = new /\ UnderWay(n)' /\ Live(n)'
  BY <1>6 DEF Arrived, UnderWay, Live
<1>11. NoCut(c)' => NoCut(c)
  BY <1>1, <1>6, <1>9, ArrivedOthers DEF NoCut
<1>12. Kept(c)'
  BY <1>9, <1>10 DEF Kept
<1>13. ASSUME NEW i \in Mine(c), Live(i)
       PROVE  k # Absent /\ calls[i].count \in 1..k.count /\ calls[i].count < l.count
  <2>1. k # Absent /\ calls[i].count \in 1..k.count
    BY <1>1, <1>13 DEF ClientInv, Tallied, k
  <2> QED
    BY <1>3, <2>1
<1>14. Apart(c)'
  <2> SUFFICES ASSUME NEW i \in Mine(c)', NEW j \in Mine(c)', Live(i)', Live(j)',
                      calls'[i].count = calls'[j].count
               PROVE  i = j
    BY DEF Apart
  <2>1. \A m \in Mine(c) : (Live(m)' <=> Live(m)) /\ calls'[m].count = calls[m].count
    BY <1>1, <1>6, ArrivedOthers
  <2>2. CASE i \in Mine(c) /\ j \in Mine(c)
    BY <1>1, <2>1, <2>2 DEF ClientInv, Apart
  <2>3. CASE i = n /\ j \in Mine(c)
    BY <1>4, <1>6, <1>10, <1>13, <2>1, <2>3, <1>3
  <2>4. CASE i \in Mine(c) /\ j = n
    BY <1>4, <1>6, <1>10, <1>13, <2>1, <2>4, <1>3
  <2> QED
    BY <1>9, <2>2, <2>3, <2>4
<1>15. ASSUME NEW i \in Mine(c)
       PROVE  Prompt(i)' /\ Alone(c, i)' /\ Forgiven(c, i)' /\ Tallied(c, i)'
  <2>1. Forgiven(c, i) /\ Tallied(c, i)
    BY <1>1 DEF ClientInv
  <2>2. /\ UnderWay(i)' <=> UnderWay(i)
        /\ Live(i)' <=> Live(i)
        /\ calls'[i].pc = calls[i].pc /\ calls'[i].count = calls[i].count
        /\ calls'[i].age = calls[i].age
        /\ Prompt(i)' /\ Alone(c, i)'
        /\ calls'[i].recent = {} => ~UnderWay(i) /\ calls[i].recent = {}
    BY <1>1, <1>6, ArrivedOthers
  <2>3. Forgiven(c, i)'
    BY <1>11, <2>1, <2>2 DEF Forgiven
  <2>4. Live(i) => /\ calls[i].count \in 1..l.count
                   /\ calls[i].pc = "admitted" => l.ttl = NoTTL \/ Window <= calls[i].age + l.ttl
    BY <1>3, <1>4, <1>13, <2>1 DEF Tallied, k
  <2>5. Tallied(c, i)'
    BY <1>3, <1>7, <2>1, <2>2, <2>4 DEF Tallied
  <2> QED
    BY <2>2, <2>3, <2>5
<1>16. Prompt(n)'
  BY <1>6, <1>10, Numbers DEF Prompt
<1>17. Alone(c, n)'
  <2>1. Recent(c) = {} => \A j \in Mine(c) : ~UnderWay(j)'
    BY <1>1, <1>6, ArrivedOthers, UnderWayIsRecent
  <2> QED
    BY <1>6, <1>9, <1>10, <2>1 DEF Alone
<1>18. Forgiven(c, n)'
  <2>1. ASSUME Recent(c) = {}, NoCut(c)' PROVE l.count = 1
    BY <1>3, <1>11, <2>1, UnderWayIsRecent DEF k
  <2>2. calls'[n].pc # "refused"
    BY <1>6, <1>10
  <2> QED
    BY <1>6, <1>7, <1>10, <2>1, <2>2 DEF Forgiven
<1>19. Tallied(c, n)'
  BY <1>3, <1>4, <1>6, <1>7, <1>10 DEF Tallied
<1>20. ClientInv(c)'
  BY <1>9, <1>12, <1>14, <1>15, <1>16, <1>17, <1>18, <1>19 DEF ClientInv
<1> QED
  BY <1>8, <1>9, <1>20, OwnStep

-----------------------------------------------------------------------------
(* A request under way goes on or ends.                                    *)

Rewrites(c, i, r, k) == calls' = [calls EXCEPT ![i] = r] /\ key' = [key EXCEPT ![c] = k]

(* A step of a call under way concerns its own client alone. *)
LEMMA Rewritten ==
  ASSUME TypeInv, NEW c \in Clients, NEW i \in Calls, calls[i].client = c,
         NEW r, r \in Call, r.client = c, NEW k, k \in Key \cup {Absent}, Rewrites(c, i, r, k)
  PROVE  /\ TypeInv' /\ Own(c) /\ Mine(c)' = Mine(c) /\ i \in Mine(c)
         /\ calls'[i] = r /\ \A j \in Mine(c) \ {i} : calls'[j] = calls[j]
         /\ key'[c] = k
<1> USE DEF Rewrites
<1>1. /\ key \in [Clients -> Key \cup {Absent}]
      /\ calls \in [1..Cardinality(Calls) -> Call] /\ Cardinality(Calls) \in 0..MaxCalls
      /\ calls[i] \in Call
  BY Types DEF TypeInv
<1>3. calls' \in [1..Cardinality(Calls) -> Call]
  BY <1>1
<1>4. key' \in [Clients -> Key \cup {Absent}] /\ key'[c] = k /\ \A d \in Clients \ {c} : key'[d] = key[d]
  BY <1>1
<1>5. calls'[i] = r /\ Calls' = Calls /\ \A j \in Calls \ {i} : calls'[j] = calls[j]
  BY DEF Calls
<1>6. TypeInv'
  BY <1>1, <1>3, <1>4 DEF TypeInv, Numbered
<1>8. Own(c)
  BY <1>4, <1>5 DEF Own
<1>9. Mine(c)' = Mine(c) /\ i \in Mine(c)
  BY <1>5 DEF Mine
<1> QED
  BY <1>4, <1>5, <1>6, <1>8, <1>9 DEF Mine

Ended(i, pc) == [calls[i] EXCEPT !.pc = pc, !.age = 0]

(* It ends with the window begun anew. *)
LEMMA EndsInv ==
  ASSUME IInv, NEW c \in Clients, NEW i \in Calls, calls[i].client = c, UnderWay(i),
         NEW pc \in {"admitted", "refused", "unheard"},
         pc = "admitted" => calls[i].count <= Limit,
         pc = "refused" => calls[i].count > Limit,
         Rewrites(c, i, Ended(i, pc), Expired(key[c]))
  PROVE  IInv'
<1> DEFINE r == Ended(i, pc)
           k == Expired(key[c])
<1>1. TypeInv /\ calls[i] \in Call
  BY Types DEF IInv
<1>2. ClientInv(c) /\ key[c] \in Key \cup {Absent}
  BY <1>1 DEF IInv, TypeInv
<1>3. /\ k \in Key \cup {Absent} /\ (k = Absent <=> key[c] = Absent)
      /\ key[c] # Absent => k.count = key[c].count /\ k.ttl = Window
  BY <1>2, ExpiredKey
<1>4. /\ r \in Call /\ r.client = c /\ r.pc = pc /\ r.age = 0 /\ r.recent = calls[i].recent
      /\ r.count = calls[i].count /\ r.straddled = calls[i].straddled
  <2>1. pc \in {"incremented", "admitted", "refused", "cut", "unheard"} /\ 0 \in 0..Window
    BY Numbers
  <2>2. r \in Call
    BY <1>1, <2>1 DEF Call, Ended
  <2> QED
    BY <1>1, <2>2 DEF Call, Ended
<1>5. Rewrites(c, i, r, k)
  OBVIOUS
<1> HIDE DEF r, k
<1>6. /\ TypeInv' /\ Own(c) /\ Mine(c)' = Mine(c) /\ i \in Mine(c)
      /\ calls'[i] = r /\ \A j \in Mine(c) \ {i} : calls'[j] = calls[j]
      /\ key'[c] = k
  <2>1. k \in Key \cup {Absent} /\ r \in Call /\ r.client = c
    BY <1>3, <1>4
  <2>2. key'[c] = k
    BY <1>1, <1>5 DEF Rewrites, TypeInv
  <2> QED
    BY <1>1, <1>5, <2>1, <2>2, Rewritten
<1>7. /\ ~UnderWay(i)' /\ (Live(i)' => Live(i)) /\ calls'[i].count = calls[i].count
      /\ \A j \in Mine(c) \ {i} : (UnderWay(j)' <=> UnderWay(j)) /\ (Live(j)' <=> Live(j))
  BY <1>4, <1>6 DEF UnderWay, Live
<1>8. NoCut(c)' => NoCut(c)
  BY <1>4, <1>6 DEF NoCut, UnderWay
<1>9. Kept(c)'
  <2>1. key'[c] # Absent => key'[c].ttl = Window
    BY <1>3, <1>6
  <2>2. calls'[i].age + Window <= Window
    BY <1>4, <1>6, Numbers
  <2> QED
    BY <1>6, <2>1, <2>2, Numbers DEF Kept
<1>10. Apart(c)'
  BY <1>2, <1>6, <1>7 DEF ClientInv, Apart
<1>11. ASSUME NEW j \in Mine(c) \ {i}
       PROVE  Prompt(j)' /\ Alone(c, j)' /\ Forgiven(c, j)' /\ Tallied(c, j)'
  <2>1. Prompt(j) /\ Alone(c, j) /\ Forgiven(c, j) /\ Tallied(c, j)
    BY <1>2 DEF ClientInv
  <2>2. /\ calls'[j] = calls[j] /\ (UnderWay(j)' <=> UnderWay(j)) /\ (Live(j)' <=> Live(j))
        /\ \A m \in Mine(c)' : UnderWay(m)' => m \in Mine(c) /\ UnderWay(m)
    BY <1>6, <1>7
  <2>3. Prompt(j)' /\ Alone(c, j)'
    BY <2>1, <2>2 DEF Prompt, Alone
  <2>4. Forgiven(c, j)'
    <3>1. UnderWay(j) /\ calls[j].recent = {} => FALSE
      BY <1>6, <2>1 DEF Alone
    <3> QED
      BY <1>8, <2>1, <2>2, <3>1 DEF Forgiven
  <2>5. calls[j].age \in Nat
    BY <1>1, Types DEF Mine, Call
  <2>6. Tallied(c, j)'
    BY <1>3, <1>6, <2>1, <2>2, <2>5, Numbers DEF Tallied
  <2> QED
    BY <2>3, <2>4, <2>6
<1>12. Forgiven(c, i)'
  <2>1. ASSUME calls[i].recent = {}, NoCut(c) PROVE pc # "refused"
    <3>1. calls[i].count <= calls[i].sends
      BY <1>2, <1>6, <2>1 DEF ClientInv, Forgiven
    <3>2. calls[i].count \in Nat /\ calls[i].sends \in 0..MaxSends
      BY <1>1 DEF Call
    <3> QED
      BY <3>1, <3>2, Numbers
  <2> QED
    BY <1>4, <1>6, <1>7, <1>8, <2>1 DEF Forgiven
<1>13. Tallied(c, i)'
  <2>1. Tallied(c, i)
    BY <1>2, <1>6 DEF ClientInv
  <2> QED
    BY <1>3, <1>4, <1>6, <1>7, <2>1, Numbers DEF Tallied
<1>14. Prompt(i)' /\ Alone(c, i)'
  BY <1>7 DEF Prompt, Alone
<1>15. ClientInv(c)'
  BY <1>6, <1>9, <1>10, <1>11, <1>12, <1>13, <1>14 DEF ClientInv
<1> QED
  BY <1>1, <1>6, <1>15, OwnStep

(* The connection breaks between the commands. *)
LEMMA CutInv ==
  ASSUME IInv, NEW c \in Clients, NEW i \in Calls, calls[i].client = c, UnderWay(i),
         calls' = [calls EXCEPT ![i].pc = "cut"], key' = key
  PROVE  IInv'
<1> DEFINE r == [calls[i] EXCEPT !.pc = "cut"]
           k == key[c]
<1>1. TypeInv /\ calls[i] \in Call
  BY Types DEF IInv
<1>2. ClientInv(c) /\ k \in Key \cup {Absent}
  BY <1>1 DEF IInv, TypeInv
<1>3. r \in Call /\ r.client = c /\ r.pc = "cut"
  BY <1>1 DEF Call
<1>4. Rewrites(c, i, r, k)
  BY <1>1, <1>2 DEF TypeInv, Rewrites
<1> HIDE DEF r, k
<1>5. /\ TypeInv' /\ Own(c) /\ Mine(c)' = Mine(c) /\ i \in Mine(c)
      /\ calls'[i] = r /\ \A j \in Mine(c) \ {i} : calls'[j] = calls[j]
  BY <1>1, <1>2, <1>3, <1>4, Rewritten
<1>6. /\ ~UnderWay(i)' /\ ~Live(i)' /\ calls'[i].pc = "cut" /\ ~NoCut(c)'
      /\ \A j \in Mine(c) \ {i} : (UnderWay(j)' <=> UnderWay(j)) /\ (Live(j)' <=> Live(j))
  BY <1>3, <1>5 DEF UnderWay, Live, NoCut
<1>7. Kept(c)' /\ \A j \in Mine(c) : Forgiven(c, j)'
  BY <1>6 DEF Kept, Forgiven
<1>8. Apart(c)'
  BY <1>2, <1>5, <1>6 DEF ClientInv, Apart
<1>9. ASSUME NEW j \in Mine(c) PROVE Prompt(j)' /\ Alone(c, j)' /\ Tallied(c, j)'
  <2>1. Prompt(j) /\ Alone(c, j) /\ Tallied(c, j)
    BY <1>2 DEF ClientInv
  <2>2. CASE j = i
    BY <1>6, <2>2 DEF Prompt, Alone, Tallied
  <2>3. CASE j # i
    <3>1. Prompt(j)' /\ Alone(c, j)'
      BY <1>5, <1>6, <2>1, <2>3 DEF Prompt, Alone
    <3>2. Tallied(c, j)'
      BY <1>5, <1>6, <2>1, <2>3 DEF Tallied
    <3> QED
      BY <3>1, <3>2
  <2> QED
    BY <2>2, <2>3
<1>10. ClientInv(c)'
  BY <1>5, <1>7, <1>8, <1>9 DEF ClientInv
<1> QED
  BY <1>1, <1>5, <1>10, OwnStep

Resent(c, i, k) ==
  [calls[i] EXCEPT !.count = Counted(k).count, !.sends = @ + 1, !.age = 0,
                   !.recent = @ \cup (Recent(c) \ {i}), !.straddled = FALSE]

(* Sending the pipeline again preserves the inductive invariant. *)
LEMMA ResendInv ==
  ASSUME IInv, NEW c \in Clients, NEW i \in Calls, calls[i].client = c, UnderWay(i),
         calls[i].sends < MaxSends, NEW k, k \in {key[c], Expired(key[c])},
         Rewrites(c, i, Resent(c, i, k), Counted(k))
  PROVE  IInv'
<1> DEFINE l == Counted(k)
           r == Resent(c, i, k)
<1>1. TypeInv /\ calls[i] \in Call /\ Recent(c) \subseteq Nat
  BY Types DEF IInv, Recent
<1>2. ClientInv(c) /\ key[c] \in Key \cup {Absent}
  BY <1>1 DEF IInv, TypeInv
<1>3. /\ k \in Key \cup {Absent} /\ (k = Absent <=> key[c] = Absent)
      /\ k # Absent => k.count = key[c].count /\ k.ttl \in {key[c].ttl, Window}
  BY <1>2, ExpiredKey
<1>4. /\ l \in Key /\ l # Absent /\ l.count \in Nat /\ l.count > 0
      /\ k = Absent => l.count = 1
      /\ k # Absent => l.count = k.count + 1 /\ l.ttl = k.ttl /\ k.count \in Nat
  BY <1>3, CountedKey DEF Key
<1>5. Rewrites(c, i, r, l)
  OBVIOUS
<1>6. /\ r \in Call /\ r.client = c /\ r.pc = "incremented" /\ r.age = 0
      /\ r.recent = calls[i].recent \cup (Recent(c) \ {i})
      /\ r.count = l.count /\ r.straddled = FALSE /\ r.sends = calls[i].sends + 1
      /\ calls[i].sends \in Nat
  <2>1. calls[i].sends + 1 \in 0..MaxSends /\ 0 \in 0..Window /\ calls[i].sends \in Nat
    BY <1>1, Numbers DEF Call
  <2>2. calls[i].recent \cup (Recent(c) \ {i}) \in SUBSET Nat
    BY <1>1 DEF Call
  <2>3. r \in Call
    BY <1>1, <1>4, <2>1, <2>2 DEF Call, Resent
  <2> QED
    BY <1>1, <2>1, <2>3 DEF Call, UnderWay, Resent
<1> HIDE DEF r, l
<1>7. /\ TypeInv' /\ Own(c) /\ Mine(c)' = Mine(c) /\ i \in Mine(c)
      /\ calls'[i] = r /\ \A j \in Mine(c) \ {i} : calls'[j] = calls[j]
      /\ key'[c] = l
  <2>1. l \in Key \cup {Absent} /\ r \in Call /\ r.client = c
    BY <1>4, <1>6
  <2>2. key'[c] = l
    BY <1>1, <1>5 DEF Rewrites, TypeInv
  <2> QED
    BY <1>1, <1>5, <2>1, <2>2, Rewritten
<1>8. /\ UnderWay(i)' /\ Live(i)' /\ calls'[i].count = l.count
      /\ \A j \in Mine(c) \ {i} : (UnderWay(j)' <=> UnderWay(j)) /\ (Live(j)' <=> Live(j))
  BY <1>6, <1>7 DEF UnderWay, Live
<1>9. NoCut(c)' => NoCut(c)
  BY <1>6, <1>7 DEF NoCut, UnderWay
<1>10. Kept(c)'
  BY <1>7, <1>8 DEF Kept
<1>11. ASSUME NEW j \in Mine(c), Live(j)
       PROVE  key[c] # Absent /\ calls[j].count \in 1..l.count /\ calls[j].count # l.count
  <2>1. key[c] # Absent /\ calls[j].count \in 1..key[c].count
    BY <1>2, <1>11 DEF ClientInv, Tallied
  <2> QED
    BY <1>3, <1>4, <2>1
<1>12. Apart(c)'
  <2> SUFFICES ASSUME NEW m \in Mine(c)', NEW j \in Mine(c)', Live(m)', Live(j)',
                      calls'[m].count = calls'[j].count
               PROVE  m = j
    BY DEF Apart
  <2>1. m \in Mine(c) /\ j \in Mine(c)
    BY <1>7
  <2>2. CASE m # i /\ j # i
    BY <1>2, <1>7, <1>8, <2>1, <2>2 DEF ClientInv, Apart
  <2>3. CASE m = i /\ j # i
    BY <1>7, <1>8, <1>11, <2>1, <2>3
  <2>4. CASE m # i /\ j = i
    BY <1>7, <1>8, <1>11, <2>1, <2>4
  <2> QED
    BY <2>2, <2>3, <2>4
<1>13. ASSUME NEW j \in Mine(c) \ {i}
       PROVE  Prompt(j)' /\ Alone(c, j)' /\ Forgiven(c, j)' /\ Tallied(c, j)'
  <2>1. Prompt(j) /\ Alone(c, j) /\ Forgiven(c, j) /\ Tallied(c, j)
    BY <1>2 DEF ClientInv
  <2>2. /\ calls'[j] = calls[j] /\ (UnderWay(j)' <=> UnderWay(j)) /\ (Live(j)' <=> Live(j))
    BY <1>7, <1>8
  <2>3. UnderWay(j) /\ calls[j].recent = {} => FALSE
    BY <1>7, <2>1 DEF Alone
  <2>4. Prompt(j)' /\ Alone(c, j)'
    BY <2>1, <2>2, <2>3 DEF Prompt, Alone
  <2>5. Forgiven(c, j)'
    BY <1>9, <2>1, <2>2, <2>3 DEF Forgiven
  <2>6. calls[j].age \in Nat
    BY <1>1, Types DEF Mine, Call
  <2>7. ASSUME Live(j), calls[j].pc = "admitted"
        PROVE  l.ttl = NoTTL \/ Window <= calls[j].age + l.ttl
    <3>1. key[c] # Absent /\ (key[c].ttl = NoTTL \/ Window <= calls[j].age + key[c].ttl)
      BY <2>1, <2>7 DEF Tallied
    <3>2. k # Absent /\ l.ttl = k.ttl /\ k.ttl \in {key[c].ttl, Window}
      BY <1>3, <1>4, <3>1
    <3> QED
      BY <2>6, <3>1, <3>2, Numbers
  <2>8. Tallied(c, j)'
    BY <1>4, <1>7, <1>11, <2>1, <2>2, <2>7 DEF Tallied
  <2> QED
    BY <2>4, <2>5, <2>8
<1>14. Prompt(i)' /\ Tallied(c, i)'
  <2>1. calls'[i].age = 0 /\ calls'[i].count = l.count /\ calls'[i].pc = "incremented"
    BY <1>6, <1>7
  <2>2. Prompt(i)'
    BY <2>1, Numbers DEF Prompt
  <2>3. l.count \in 1..l.count
    BY <1>4
  <2> QED
    BY <1>4, <1>7, <2>1, <2>2, <2>3 DEF Tallied
<1>15. Alone(c, i)'
  BY <1>2, <1>6, <1>7, <1>8 DEF ClientInv, Alone
<1>16. Forgiven(c, i)'
  <2>1. ASSUME calls[i].recent = {}, NoCut(c) PROVE l.count <= calls[i].sends + 1
    <3>1. key[c] # Absent => key[c].count <= calls[i].sends
      BY <1>2, <1>7, <2>1 DEF ClientInv, Forgiven
    <3> QED
      BY <1>3, <1>4, <1>6, <3>1
  <2>2. calls'[i].recent = {} => calls[i].recent = {}
    BY <1>6, <1>7
  <2> QED
    BY <1>6, <1>7, <1>9, <2>1, <2>2 DEF Forgiven
<1>17. ClientInv(c)'
  BY <1>7, <1>10, <1>12, <1>13, <1>14, <1>15, <1>16 DEF ClientInv
<1> QED
  BY <1>7, <1>17, OwnStep

(* Every other step of a call under way preserves the inductive invariant. *)
LEMMA ProgressInv ==
  ASSUME IInv, NEW i \in Calls, Decide(i) \/ Break(i) \/ Resend(i)
  PROVE  IInv'
<1>1. PICK c \in Clients : calls[i].client = c
  BY Types DEF IInv, Call
<1>2. key \in [Clients -> Key \cup {Absent}] /\ calls[i] \in Call
  BY Types DEF IInv, TypeInv
<1>3. UnderWay(i) /\ calls[i].count \in Nat
  BY <1>2 DEF Decide, Break, Resend, Call
<1>4. CASE Decide(i)
  <2> DEFINE pc == IF Exceeded(calls[i].count) THEN "refused" ELSE "admitted"
  <2>1. Rewrites(c, i, Ended(i, pc), Expired(key[c]))
    BY <1>1, <1>2, <1>4 DEF Decide, Rewrites, Ended
  <2>2. Exceeded(calls[i].count) <=> calls[i].count > Limit
    BY DEF Exceeded
  <2>3. CASE Exceeded(calls[i].count)
    <3>1. Rewrites(c, i, Ended(i, "refused"), Expired(key[c]))
      BY <2>1, <2>3
    <3> QED
      BY <1>1, <1>3, <2>2, <2>3, <3>1, EndsInv
  <2>4. CASE ~Exceeded(calls[i].count)
    <3>1. Rewrites(c, i, Ended(i, "admitted"), Expired(key[c]))
      BY <2>1, <2>4
    <3>2. calls[i].count <= Limit
      BY <1>3, <2>2, <2>4, Numbers
    <3> QED
      BY <1>1, <1>3, <3>1, <3>2, EndsInv
  <2> QED
    BY <2>3, <2>4
<1>5. CASE Break(i)
  <2>1. CASE /\ key' = [key EXCEPT ![calls[i].client] = Expired(@)]
             /\ calls' = [calls EXCEPT ![i] = [@ EXCEPT !.pc = "unheard", !.age = 0]]
    <3>1. Rewrites(c, i, Ended(i, "unheard"), Expired(key[c]))
      BY <1>1, <1>2, <2>1 DEF Rewrites, Ended
    <3> QED
      BY <1>1, <1>3, <3>1, EndsInv
  <2>2. CASE calls' = [calls EXCEPT ![i].pc = "cut"] /\ key' = key
    BY <1>1, <1>3, <2>2, CutInv
  <2> QED
    BY <1>5, <2>1, <2>2 DEF Break
<1>6. CASE Resend(i)
  <2>1. PICK k \in {key[c], Expired(key[c])} :
          /\ key' = [key EXCEPT ![c] = Counted(k)]
          /\ calls' = [calls EXCEPT ![i] =
               [calls[i] EXCEPT !.count = Counted(k).count, !.sends = @ + 1, !.age = 0,
                                !.recent = @ \cup (Recent(c) \ {i}), !.straddled = FALSE]]
    BY <1>1, <1>6 DEF Resend
  <2>2. Rewrites(c, i, Resent(c, i, k), Counted(k))
    BY <2>1 DEF Rewrites, Resent
  <2>3. calls[i].sends < MaxSends
    BY <1>6 DEF Resend
  <2> QED
    BY <1>1, <1>3, <2>2, <2>3, ResendInv
<1> QED
  BY <1>4, <1>5, <1>6

-----------------------------------------------------------------------------
(* What a tick makes of the calls. *)
LEMMA TickCalls ==
  ASSUME IInv, Tick
  PROVE  /\ TypeInv' /\ Calls' = Calls
         /\ \A c \in Clients : key'[c] = Older(key[c])
         /\ \A i \in Calls :
              /\ calls'[i].client = calls[i].client /\ calls'[i].pc = calls[i].pc
              /\ calls'[i].count = calls[i].count /\ calls'[i].sends = calls[i].sends
              /\ calls'[i].recent = calls[i].recent
              /\ calls[i].age \in 0..Window
              /\ calls'[i].age = IF calls[i].age = Window THEN Window ELSE calls[i].age + 1
              /\ calls'[i].straddled =
                   (calls[i].straddled \/ (UnderWay(i) /\ Older(key[calls[i].client]) = Absent))
<1> DEFINE age(i) == IF calls[i].age = Window THEN Window ELSE calls[i].age + 1
           straddled(i) == calls[i].straddled \/ (UnderWay(i) /\ Older(key[calls[i].client]) = Absent)
           r(i) == [calls[i] EXCEPT !.age = age(i), !.straddled = straddled(i)]
<1>1. /\ key \in [Clients -> Key \cup {Absent}]
      /\ calls \in [1..Cardinality(Calls) -> Call] /\ Cardinality(Calls) \in 0..MaxCalls
      /\ \A i \in Calls : calls[i] \in Call
  BY Types DEF IInv, TypeInv
<1>2. /\ calls' = [i \in Calls |-> r(i)]
      /\ key' = [c \in Clients |-> Older(key[c])]
  BY DEF Tick
<1>3. key' \in [Clients -> Key \cup {Absent}] /\ \A c \in Clients : key'[c] = Older(key[c])
  BY <1>1, <1>2, OlderKey
<1>4. ASSUME NEW i \in Calls
      PROVE  /\ r(i) \in Call /\ r(i).client = calls[i].client /\ r(i).pc = calls[i].pc
             /\ r(i).count = calls[i].count /\ r(i).sends = calls[i].sends
             /\ r(i).recent = calls[i].recent /\ calls[i].age \in 0..Window
             /\ r(i).age = age(i) /\ r(i).straddled = straddled(i)
  <2>1. calls[i] \in Call /\ calls[i].age \in 0..Window
    BY <1>1 DEF Call
  <2>2. age(i) \in 0..Window /\ straddled(i) \in BOOLEAN
    BY <2>1, Numbers DEF Call
  <2> HIDE DEF age, straddled
  <2> QED
    BY <2>1, <2>2 DEF Call
<1> HIDE DEF r, age, straddled
<1>5. calls' \in [1..Cardinality(Calls) -> Call] /\ Calls' = Calls /\ \A i \in Calls : calls'[i] = r(i)
  BY <1>1, <1>2, <1>4 DEF Calls
<1>6. TypeInv'
  BY <1>1, <1>3, <1>5 DEF TypeInv, Numbered
<1> QED
  BY <1>3, <1>4, <1>5, <1>6 DEF age, straddled

(* Time preserves the inductive invariant. *)
LEMMA TickInv ==
  ASSUME IInv, Tick
  PROVE  IInv'
<1>1. ASSUME NEW c \in Clients PROVE ClientInv(c)'
  <2>1. ClientInv(c) /\ key[c] \in Key \cup {Absent} /\ key'[c] = Older(key[c])
    BY Types, TickCalls DEF IInv
  <2>2. /\ key'[c] # Absent => key[c] # Absent /\ key'[c].count = key[c].count
        /\ key'[c] # Absent /\ key[c].ttl = NoTTL => key'[c].ttl = NoTTL
        /\ key'[c] # Absent /\ key[c].ttl # NoTTL =>
             /\ key[c].ttl \in Nat /\ key[c].ttl \in 1..Window /\ key[c].ttl # 1
             /\ key'[c].ttl = key[c].ttl - 1
        /\ key[c] # Absent /\ key'[c] = Absent => key[c].ttl = 1
    BY <2>1, OlderKey DEF Key
  <2>3. Mine(c)' = Mine(c)
    BY TickCalls DEF Mine
  <2>4. ASSUME NEW i \in Mine(c)
        PROVE  /\ i \in Calls /\ calls[i].client = c
               /\ calls'[i].pc = calls[i].pc /\ (UnderWay(i)' <=> UnderWay(i))
               /\ calls'[i].count = calls[i].count /\ calls'[i].sends = calls[i].sends
               /\ calls'[i].recent = calls[i].recent /\ calls[i].age \in 0..Window
               /\ calls'[i].age = IF calls[i].age = Window THEN Window ELSE calls[i].age + 1
               /\ ~calls'[i].straddled => ~calls[i].straddled /\ (UnderWay(i) => key'[c] # Absent)
    BY <2>1, TickCalls DEF Mine, UnderWay
  <2>5. NoCut(c)' <=> NoCut(c)
    BY <2>3, <2>4 DEF NoCut
  <2>6. Kept(c)'
    <3> SUFFICES ASSUME key'[c] # Absent, NoCut(c), \A i \in Mine(c) : ~UnderWay(i)
                 PROVE  key'[c].ttl # NoTTL /\ \E i \in Mine(c) : calls'[i].age + key'[c].ttl <= Window
      BY <2>3, <2>4, <2>5 DEF Kept
    <3>1. key[c].ttl # NoTTL /\ \E i \in Mine(c) : calls[i].age + key[c].ttl <= Window
      BY <2>1, <2>2 DEF ClientInv, Kept
    <3>2. PICK i \in Mine(c) : calls[i].age + key[c].ttl <= Window
      BY <3>1
    <3>3. key'[c].ttl = key[c].ttl - 1 /\ key[c].ttl \in 1..Window
      BY <2>2, <3>1
    <3>4. calls'[i].age = calls[i].age + 1 /\ calls[i].age \in 0..Window
      BY <2>4, <3>2, <3>3, Numbers
    <3> QED
      BY <3>2, <3>3, <3>4, Numbers
  <2>7. ASSUME NEW i \in Mine(c), Live(i)'
        PROVE  Live(i) /\ key'[c] # Absent
    <3>1. ~calls[i].straddled /\ (UnderWay(i) => key'[c] # Absent)
      BY <2>4, <2>7 DEF Live
    <3>2. CASE UnderWay(i)
      BY <3>1, <3>2 DEF Live
    <3>3. CASE ~UnderWay(i)
      <4>1. calls[i].pc = "admitted" /\ calls'[i].age < Window
        BY <2>4, <2>7, <3>3 DEF Live
      <4>2. calls[i].age < Window /\ calls'[i].age = calls[i].age + 1
        BY <2>4, <4>1, Numbers
      <4>3. Live(i)
        BY <3>1, <4>1, <4>2 DEF Live
      <4>4. key[c] # Absent /\ (key[c].ttl = NoTTL \/ Window <= calls[i].age + key[c].ttl)
        BY <2>1, <4>1, <4>3 DEF ClientInv, Tallied
      <4>5. key[c].ttl # 1
        BY <2>4, <4>1, <4>2, <4>4, Numbers
      <4> QED
        BY <2>2, <4>3, <4>4, <4>5
    <3> QED
      BY <3>2, <3>3
  <2>8. Apart(c)'
    BY <2>1, <2>3, <2>4, <2>7 DEF ClientInv, Apart
  <2>9. ASSUME NEW i \in Mine(c)
        PROVE  Prompt(i)' /\ Alone(c, i)' /\ Forgiven(c, i)' /\ Tallied(c, i)'
    <3>1. Prompt(i) /\ Alone(c, i) /\ Forgiven(c, i) /\ Tallied(c, i)
      BY <2>1 DEF ClientInv
    <3>2. Prompt(i)'
      <4>1. UnderWay(i) => calls[i].age < Patience
        BY <2>4 DEF Tick
      <4> QED
        BY <2>4, <4>1, Numbers DEF Prompt
    <3>3. Alone(c, i)'
      BY <2>3, <2>4, <3>1 DEF Alone
    <3>4. Forgiven(c, i)'
      BY <2>2, <2>4, <2>5, <3>1 DEF Forgiven
    <3>5. ASSUME Live(i)', calls[i].pc = "admitted"
          PROVE  key'[c].ttl = NoTTL \/ Window <= calls'[i].age + key'[c].ttl
      <4>1. key'[c] # Absent /\ (key[c].ttl = NoTTL \/ Window <= calls[i].age + key[c].ttl)
        BY <2>7, <3>1, <3>5 DEF Tallied
      <4>2. CASE key[c].ttl = NoTTL
        BY <2>2, <4>1, <4>2
      <4>3. CASE key[c].ttl # NoTTL
        <5>1. key'[c].ttl = key[c].ttl - 1 /\ key[c].ttl \in Nat
          BY <2>2, <4>1, <4>3
        <5>2. calls'[i].age < Window
          BY <2>4, <3>5 DEF Live, UnderWay
        <5>3. calls'[i].age = calls[i].age + 1 /\ calls[i].age \in Nat
          BY <2>4, <5>2, Numbers
        <5> QED
          BY <4>1, <4>3, <5>1, <5>3, Numbers
      <4> QED
        BY <4>2, <4>3
    <3>6. Tallied(c, i)'
      BY <2>2, <2>4, <2>7, <3>1, <3>5 DEF Tallied
    <3> QED
      BY <3>2, <3>3, <3>4, <3>6
  <2> QED
    BY <2>3, <2>6, <2>8, <2>9 DEF ClientInv
<1> QED
  BY <1>1, TickCalls DEF IInv

(* Every step preserves the inductive invariant. *)
LEMMA StepInv == IInv /\ [Next]_vars => IInv'
<1> SUFFICES ASSUME IInv, [Next]_vars PROVE IInv'
  OBVIOUS
<1>1. CASE UNCHANGED vars
  BY <1>1 DEF vars, IInv, TypeInv, Numbered, ClientInv, Kept, Apart, NoCut, Prompt, Alone, Forgiven,
              Tallied, Live, UnderWay, Mine, Calls
<1> QED
  BY <1>1, IncrInv, FailOpenInv, ProgressInv, TickInv DEF Next

(* The inductive invariant holds in every reachable state. *)
LEMMA Invariant == Spec => []IInv
BY InitInv, StepInv, PTL DEF Spec

-----------------------------------------------------------------------------
(* Keys and requests keep their types, and the history its length.         *)
THEOREM TypeCorrect == Spec => []TypeOK
<1>1. IInv => TypeOK
  BY Types, Numbers DEF IInv, TypeInv, TypeOK
<1> QED
  BY <1>1, Invariant, PTL

(* However its pipelines overlap, break and are sent again, the limiter     *)
(* lets no more than Limit requests of a client through by count in any    *)
(* window: those that it still counts have different counts up to Limit.   *)
THEOREM Limiting == Spec => []AdmittedWithinLimit
<1>1. IInv => AdmittedWithinLimit
  <2> SUFFICES ASSUME IInv, NEW c \in Clients
               PROVE  Cardinality({i \in Recent(c) : calls[i].pc = "admitted" /\ ~calls[i].straddled}) <= Limit
    BY DEF AdmittedWithinLimit
  <2> DEFINE S == {i \in Recent(c) : calls[i].pc = "admitted" /\ ~calls[i].straddled}
             f == [i \in S |-> calls[i].count]
  <2>1. ClientInv(c)
    BY DEF IInv
  <2>2. ASSUME NEW i \in S
        PROVE  i \in Mine(c) /\ Live(i) /\ calls[i].count \in 1..Limit
    <3>1. i \in Mine(c) /\ Live(i) /\ calls[i].pc = "admitted"
      BY DEF Recent, Mine, Live
    <3>2. calls[i].count <= Limit /\ key[c] # Absent /\ calls[i].count \in 1..key[c].count
      BY <2>1, <3>1 DEF ClientInv, Tallied
    <3> QED
      BY <3>1, <3>2, Numbers
  <2>3. \A i, j \in S : f[i] = f[j] => i = j
    BY <2>1, <2>2 DEF ClientInv, Apart
  <2>4. f \in Injection(S, 1..Limit)
    BY <2>2, <2>3 DEF Injection, IsInjective
  <2>5. IsFiniteSet(1..Limit) /\ Cardinality(1..Limit) = Limit
    BY FS_Interval, Numbers
  <2> HIDE DEF S, f
  <2>6. Cardinality(S) <= Limit
    BY <2>4, <2>5, FS_Injection
  <2> QED
    BY <2>6 DEF S
<1> QED
  BY <1>1, Invariant, PTL

(* Who has been silent for a window is refused only after a cut pipeline.  *)
THEOREM Forgiving == Spec => []SilenceForgives
<1>1. IInv => SilenceForgives
  <2> SUFFICES ASSUME IInv, NEW i \in Calls, calls[i].pc = "refused", calls[i].recent = {}
               PROVE  \E j \in Calls : j # i /\ calls[j].client = calls[i].client /\ calls[j].pc = "cut"
    BY DEF SilenceForgives
  <2>1. PICK c \in Clients : calls[i].client = c
    BY Types DEF IInv, Call
  <2>2. i \in Mine(c) /\ Forgiven(c, i)
    BY <2>1 DEF IInv, ClientInv, Mine
  <2>3. ~NoCut(c)
    BY <2>2 DEF Forgiven
  <2> QED
    BY <2>1, <2>3 DEF NoCut, Mine
<1> QED
  BY <1>1, Invariant, PTL
=============================================================================
