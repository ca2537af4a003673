--------------------------- MODULE LinkManagement ---------------------------
(***************************************************************************)
(* The two operations of usecase/link_usecase.go that look before they     *)
(* write: Create, which finds a slug for a new link, and CreateABTest,     *)
(* which keeps the weights of a link's variants within 100; with the       *)
(* statements of repository/postgres/link_repo.go and ab_geo_repo.go they  *)
(* run, each a transaction of its own, and the slug column's width and     *)
(* uniqueness. What they do to the cache is in LinkCache.                  *)
(***************************************************************************)
EXTENDS Base62, FiniteSets, FiniteSetsExt

CONSTANTS
  Ops,             \* the operations, one request each
  Words,           \* custom slugs that no id encodes to, with a hyphen say
  Lookalikes,      \* ids whose base62 form somebody asks for as a custom slug
  Readings,        \* what the clock may read, each standing for "tmp-" and it
  SlugWidth,       \* characters in the slug column
  TemporaryWidth,  \* characters of a temporary slug
  MaxCustomWidth,  \* characters of the longest custom slug
  FullWeight,      \* 100
  MaxCrashes,      \* bound: process crashes
  NoSlug

ASSUME WidthAssumption ==
  /\ {SlugWidth, TemporaryWidth, MaxCustomWidth} \subseteq Nat
  /\ MaxCustomWidth <= SlugWidth
  /\ MaxCustomWidth < TemporaryWidth

ASSUME SlugAssumption ==
  /\ NoSlug \notin Words \cup Readings
  /\ Words \cap Readings = {}
  /\ FullWeight \in Nat \ {0}

(* "tmp-" has a hyphen, which is no digit of Base62, and ids start from 1.  *)
ASSUME EncodingAssumption ==
  /\ \A slug \in Readings \cup {NoSlug} : slug \notin Seq(0..(Base - 1))
  /\ Lookalikes \subseteq Nat \ {0}

VARIABLES
  links,     \* the rows of links: slug, and the operation that inserted it
  nextId,    \* the sequence behind the id column
  variants,  \* the rows of ab_tests
  op,        \* the operations
  failed,    \* history: operations that met a failing statement or a crash
  crashes

vars == <<links, nextId, variants, op, failed, crashes>>

Ids == Nat \ {0}
Customs == Words \cup {Encode(n) : n \in Lookalikes}
Slugs == Customs \cup Readings \cup {Encode(n) : n \in 1..Cardinality(Ops)}

(* Slip: a weight of zero is let through. *)
Weights_Zero == 0..FullWeight

(* The weights that CreateABTest accepts. *)
Weights == 1..FullWeight

Running == {"checking", "inserting", "updating", "summing", "adding"}
Over == {"created", "added", "removed", "slug_exists", "invalid_weight", "internal_error", "killed"}

(* want    the custom slug asked for, or NoSlug                            *)
(* slug    link.Slug                                                       *)
(* id      the link's id once it is known, or 0                            *)
(* sum     what SumWeightsByLink returned                                  *)
(* seen    history: the operations whose variants were in that sum         *)
(* clashed  history: two temporary slugs were made from the same reading   *)
Operation ==
  [pc : {"waiting"} \cup Running \cup Over, want : Customs \cup {NoSlug},
   slug : Slugs \cup {NoSlug}, id : Nat, weight : Weights \cup {0}, sum : Nat,
   seen : SUBSET Ops, clashed : BOOLEAN]

Waiting == [pc |-> "waiting", want |-> NoSlug, slug |-> NoSlug, id |-> 0, weight |-> 0,
            sum |-> 0, seen |-> {}, clashed |-> FALSE]

Taken(slug) == \E i \in DOMAIN links : links[i].slug = slug

Of(link) == {v \in variants : v.link = link}

SumWeights(link) == MapThenSumSet(LAMBDA v : v.weight, Of(link))

-----------------------------------------------------------------------------
Init ==
  /\ links = <<>>
  /\ nextId = 1
  /\ variants = {}
  /\ op = [o \in Ops |-> Waiting]
  /\ failed = {}
  /\ crashes = 0

Ends(o, how) == op' = [op EXCEPT ![o].pc = how]

-----------------------------------------------------------------------------
(* Create, of input that is valid: anything else returns before a query.   *)

BeginCustom(o, want) ==
  /\ op[o].pc = "waiting"
  /\ op' = [op EXCEPT ![o] = [@ EXCEPT !.pc = "checking", !.want = want, !.slug = want]]
  /\ UNCHANGED <<links, nextId, variants, failed, crashes>>

BeginGenerated(o, reading) ==
  /\ op[o].pc = "waiting"
  /\ op' = [op EXCEPT ![o] = [@ EXCEPT !.pc = "inserting", !.slug = reading]]
  /\ UNCHANGED <<links, nextId, variants, failed, crashes>>

(* SlugExists, over the links of every user, deleted ones included. *)
CheckSlug(o) ==
  /\ op[o].pc = "checking"
  /\ Ends(o, IF Taken(op[o].want) THEN "slug_exists" ELSE "inserting")
  /\ UNCHANGED <<links, nextId, variants, failed, crashes>>

TooWide(o) ==
  SlugWidth < IF op[o].want = NoSlug THEN TemporaryWidth ELSE MaxCustomWidth

Inserted(o) == [i \in DOMAIN links \cup {nextId} |->
  IF i = nextId THEN [slug |-> op[o].slug, by |-> o] ELSE links[i]]

(* Slip: a unique violation is an error like any other. *)
Refusal_Internal(o) == "internal_error"

(* Create maps a unique violation, and nothing else, to ErrSlugAlreadyExists. *)
Refusal(o) == IF TooWide(o) THEN "internal_error" ELSE "slug_exists"

(* The column or the unique index refuses the row, the latter although the  *)
(* check may have passed. An id is used up, which leaves a gap.            *)
InsertRefused(o) ==
  /\ op[o].pc = "inserting" /\ (TooWide(o) \/ Taken(op[o].slug))
  /\ nextId' = nextId + 1
  /\ op' = [op EXCEPT ![o].pc = Refusal(o), ![o].clashed = ~TooWide(o) /\ op[o].want = NoSlug]
  /\ UNCHANGED <<links, variants, failed, crashes>>

(* Slip: the temporary slug is never replaced. *)
Insert_Final(o) ==
  /\ op[o].pc = "inserting" /\ ~TooWide(o) /\ ~Taken(op[o].slug)
  /\ links' = Inserted(o)
  /\ nextId' = nextId + 1
  /\ op' = [op EXCEPT ![o].pc = "created", ![o].id = nextId]
  /\ UNCHANGED <<variants, failed, crashes>>

Insert(o) ==
  /\ op[o].pc = "inserting" /\ ~TooWide(o) /\ ~Taken(op[o].slug)
  /\ links' = Inserted(o)
  /\ nextId' = nextId + 1
  /\ op' = [op EXCEPT ![o].pc = IF op[o].want = NoSlug THEN "updating" ELSE "created",
                      ![o].id = nextId]
  /\ UNCHANGED <<variants, failed, crashes>>

(* Slip: the error of UpdateSlug is ignored. *)
UpdateTaken_Ignored(o) ==
  /\ op[o].pc = "updating" /\ Taken(Encode(op[o].id))
  /\ op' = [op EXCEPT ![o].pc = "created", ![o].slug = Encode(op[o].id)]
  /\ UNCHANGED <<links, nextId, variants, failed, crashes>>

(* Somebody has asked for what the new id encodes to: Create fails, and the *)
(* row keeps its temporary slug.                                           *)
UpdateTaken(o) ==
  /\ op[o].pc = "updating" /\ Taken(Encode(op[o].id))
  /\ Ends(o, "slug_exists")
  /\ UNCHANGED <<links, nextId, variants, failed, crashes>>

UpdateSlug(o) ==
  LET slug == Encode(op[o].id) IN
  /\ op[o].pc = "updating" /\ ~Taken(slug)
  /\ links' = [links EXCEPT ![op[o].id].slug = slug]
  /\ op' = [op EXCEPT ![o].pc = "created", ![o].slug = slug]
  /\ UNCHANGED <<nextId, variants, failed, crashes>>

-----------------------------------------------------------------------------
(* CreateABTest and DeleteABTest.                                          *)

BeginVariant(o, link, weight) ==
  /\ op[o].pc = "waiting"
  /\ op' = [op EXCEPT ![o] = [@ EXCEPT !.pc = "summing", !.id = link, !.weight = weight]]
  /\ UNCHANGED <<links, nextId, variants, failed, crashes>>

(* Slip: one more than the full weight. *)
Excessive_OffByOne(sum, weight) == sum + weight > FullWeight + 1

Excessive(sum, weight) == sum + weight > FullWeight

Sum(o) ==
  LET sum == SumWeights(op[o].id) IN
  /\ op[o].pc = "summing"
  /\ op' = [op EXCEPT ![o] =
       [@ EXCEPT !.pc = IF Excessive(sum, op[o].weight) THEN "invalid_weight" ELSE "adding",
                 !.sum = sum, !.seen = {v.by : v \in Of(op[o].id)}]]
  /\ UNCHANGED <<links, nextId, variants, failed, crashes>>

Added(o) == variants \cup {[link |-> op[o].id, by |-> o, weight |-> op[o].weight]}

Add(o) ==
  /\ op[o].pc = "adding"
  /\ variants' = Added(o)
  /\ Ends(o, "added")
  /\ UNCHANGED <<links, nextId, failed, crashes>>

RemoveVariant(o, v) ==
  /\ op[o].pc = "waiting"
  /\ variants' = variants \ {v}
  /\ Ends(o, "removed")
  /\ UNCHANGED <<links, nextId, failed, crashes>>

-----------------------------------------------------------------------------
(* A statement fails without an effect: no connection, a canceled request. *)
QueryFails(o) ==
  /\ op[o].pc \in Running
  /\ Ends(o, "internal_error")
  /\ failed' = failed \cup {o}
  /\ UNCHANGED <<links, nextId, variants, crashes>>

(* A statement takes effect, but its answer does not arrive. *)
Unconfirmed(o) ==
  /\ \/ /\ op[o].pc = "inserting" /\ ~TooWide(o) /\ ~Taken(op[o].slug)
        /\ links' = Inserted(o)
        /\ nextId' = nextId + 1
        /\ UNCHANGED variants
     \/ /\ op[o].pc = "updating" /\ ~Taken(Encode(op[o].id))
        /\ links' = [links EXCEPT ![op[o].id].slug = Encode(op[o].id)]
        /\ UNCHANGED <<nextId, variants>>
     \/ /\ op[o].pc = "adding"
        /\ variants' = Added(o)
        /\ UNCHANGED <<links, nextId>>
  /\ Ends(o, "internal_error")
  /\ failed' = failed \cup {o}
  /\ UNCHANGED crashes

(* The process dies with everything it was doing; no table is touched. *)
Crash ==
  LET running == {o \in Ops : op[o].pc \in Running} IN
  /\ crashes < MaxCrashes
  /\ crashes' = crashes + 1
  /\ op' = [o \in Ops |-> IF o \in running THEN [op[o] EXCEPT !.pc = "killed"] ELSE op[o]]
  /\ failed' = failed \cup running
  /\ UNCHANGED <<links, nextId, variants>>

-----------------------------------------------------------------------------
Creation(o) ==
  \/ \E want \in Customs : BeginCustom(o, want)
  \/ \E reading \in Readings : BeginGenerated(o, reading)
  \/ CheckSlug(o)
  \/ InsertRefused(o) \/ Insert(o)
  \/ UpdateTaken(o) \/ UpdateSlug(o)

Variant(o) ==
  \/ \E link \in DOMAIN links, weight \in Weights : BeginVariant(o, link, weight)
  \/ Sum(o) \/ Add(o)
  \/ \E v \in variants : RemoveVariant(o, v)

Next ==
  \/ \E o \in Ops : Creation(o) \/ Variant(o) \/ QueryFails(o) \/ Unconfirmed(o)
  \/ Crash

Spec == Init /\ [][Next]_vars

-----------------------------------------------------------------------------
TypeOK ==
  /\ \A i \in DOMAIN links : i \in Ids /\ i < nextId
  /\ \A i \in DOMAIN links : links[i] \in [slug : Slugs, by : Ops]
  /\ nextId \in Ids
  /\ variants \subseteq [link : DOMAIN links, by : Ops, weight : 1..FullWeight]
  /\ op \in [Ops -> Operation]
  /\ failed \subseteq Ops /\ crashes \in 0..MaxCrashes

Generated(o) == op[o].want = NoSlug

(* A link that Create has returned stays in the table under the slug it was *)
(* returned with, whatever later creations ask for: the slug asked for, or  *)
(* one that decodes to the link's id.                                      *)
CreatedIsStored ==
  \A o \in Ops : op[o].pc = "created" =>
    /\ links[op[o].id] = [slug |-> op[o].slug, by |-> o]
    /\ IF Generated(o) THEN op[o].slug \notin Readings /\ Decode(op[o].slug) = op[o].id
       ELSE op[o].slug = op[o].want

(* A row with a temporary slug belongs to a creation under way, or that     *)
(* creation met a failing statement or a crash, or the base62 form of the  *)
(* row's id is another link's custom slug. Nothing cleans such rows up.    *)
LeftoverHasCause ==
  \A i \in DOMAIN links : links[i].slug \in Readings =>
    \/ op[links[i].by].pc = "updating"
    \/ links[i].by \in failed
    \/ \E j \in DOMAIN links : j # i /\ links[j].slug = Encode(i) /\ ~Generated(links[j].by)

(* Who is told that the slug exists lost it to somebody: a custom slug to   *)
(* another creation, also when both found it free; a generated one to a    *)
(* custom slug, or its temporary one to a creation at the same instant.    *)
(* And nobody gets another error unless a statement failed or the slug does *)
(* not fit the column.                                                     *)
ErrorsAreHonest ==
  \A o \in Ops :
    /\ op[o].pc = "slug_exists" =>
         \/ op[o].clashed
         \/ \E i \in DOMAIN links :
              /\ links[i].by # o
              /\ links[i].slug = IF Generated(o) THEN Encode(op[o].id) ELSE op[o].want
    /\ op[o].pc = "internal_error" => o \in failed \/ TooWide(o)

(* The weights of a link exceed the full weight only if two variants were   *)
(* added by operations neither of which had seen the other's: no sequence   *)
(* of additions, deletions and unconfirmed statements gets there without.  *)
OverweightHasOverlap ==
  \A link \in DOMAIN links : SumWeights(link) > FullWeight =>
    \E v, w \in Of(link) : v # w /\ v.by \notin op[w.by].seen /\ w.by \notin op[v.by].seen

Permanent == {i \in DOMAIN links : links[i].slug \notin Readings}

Created == {o \in Ops : op[o].pc = "created"}

Table == INSTANCE SlugTable WITH
  published <- {<<links[i].slug, i>> : i \in Permanent},
  told <- {<<op[o].slug, op[o].id>> : o \in Created}

(* The statements of all creations together, each a transaction of its own, *)
(* with their failures, are one table in which slugs and links belong to    *)
(* each other for good, and which only says what it holds.                 *)
ImplementsSlugTable == Table!Spec

(* link_usecase.go:88, "Temporary slug -- will be replaced with base62(id)  *)
(* after insert": a creation without a custom slug that meets no failing   *)
(* statement and no creation at the same instant does not end in an error  *)
(* unless its slug exists.                                                 *)
TemporaryIsReplaced ==
  \A o \in Ops :
    op[o].pc = "internal_error" /\ Generated(o) => o \in failed
=============================================================================
