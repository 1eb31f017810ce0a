-------------------------------- MODULE NamePath --------------------------------
(***************************************************************************)
(* The name path of a connection (internal/name_path.go): the project and  *)
(* dataset a client sets once, with which the names in its statements are  *)
(* completed.  A limit, maxNum, says how many identifiers a complete name  *)
(* has; 0 means that none is set.                                          *)
(***************************************************************************)
EXTENDS Integers, Sequences, SequencesExt

CONSTANTS
    Words,              \* identifiers
    InformationSchema,  \* the identifiers that spell INFORMATION_SCHEMA
    MaxLen              \* bound: identifiers in a given path and in the name path

VARIABLES
    path,    \* the identifiers that are set
    maxNum   \* how many identifiers a complete name has

ASSUME ConstantsType == InformationSchema \subseteq Words /\ MaxLen \in Nat

---------------------------------------------------------------------------
(* A path is given as a sequence of strings, each of which may hold        *)
(* several identifiers with dots between them.                             *)
Normalize(given) == FlattenSeq(given)

(* INFORMATION_SCHEMA anywhere but at the end of a path.                   *)
IsInformationSchema(ids) == \E i \in 1..(Len(ids) - 1) : ids[i] \in InformationSchema

(* getMaxNum: one more identifier is allowed with INFORMATION_SCHEMA.      *)
Limit(max, ids) ==
    IF max > 0 /\ IsInformationSchema(ids) THEN max + 1 ELSE max

(* Mutant: the loop does not look for the first identifier of the path.    *)
Stops_AtLimitOnly(base, ids, limit, i) == limit > 0 /\ (i - 1) + Len(ids) >= limit

(* Mutant: > for >=.                                                       *)
Stops_Late(base, ids, limit, i) ==
    \/ ids[1] = base[i]
    \/ limit > 0 /\ (i - 1) + Len(ids) > limit

(* The loop of mergePath ends at the first identifier of the name path     *)
(* that the given path starts with, or when the limit is reached.          *)
Stops(base, ids, limit, i) ==
    \/ ids[1] = base[i]
    \/ limit > 0 /\ (i - 1) + Len(ids) >= limit

(* How many identifiers of the name path it takes.                         *)
Taken(base, ids, limit) ==
    CHOOSE k \in 0..Len(base) :
        /\ \A i \in 1..k : ~ Stops(base, ids, limit, i)
        /\ k < Len(base) => Stops(base, ids, limit, k + 1)

(* mergePath, for a normalized path.                                       *)
Merge(base, max, ids) ==
    LET limit == Limit(max, ids)
    IN  IF limit > 0 /\ Len(ids) = limit THEN ids
        ELSE IF ids = <<>> THEN base
        ELSE SubSeq(base, 1, Taken(base, ids, limit)) \o ids

---------------------------------------------------------------------------
(* A string holds at least one identifier.                                 *)
Strings(max) == BoundedSeq(Words, max) \ {<<>>}

Given ==
    {<<>>} \cup {<<ids>> : ids \in Strings(MaxLen)}
           \cup {<< <<w>>, ids>> : w \in Words, ids \in Strings(MaxLen - 1)}

Init == path = <<>> /\ maxNum = 0

(* Mutant: any number is taken.                                            *)
SetMaxNum_Unchecked(num) == maxNum' = num /\ UNCHANGED path

(* SetMaxNamePath ignores what is not positive.                            *)
SetMaxNum(num) ==
    /\ num > 0
    /\ maxNum' = num
    /\ UNCHANGED path

(* SetNamePath refuses too many identifiers, but looks for                 *)
(* INFORMATION_SCHEMA among the given strings.                             *)
GivenLimit(given) ==
    IF maxNum > 0 /\ \E i \in 1..(Len(given) - 1) :
                        Len(given[i]) = 1 /\ given[i][1] \in InformationSchema
    THEN maxNum + 1 ELSE maxNum

SetPath(given) ==
    /\ ~ (GivenLimit(given) > 0 /\ Len(Normalize(given)) > GivenLimit(given))
    /\ path' = Normalize(given)
    /\ UNCHANGED maxNum

(* AddNamePath, of one string.                                             *)
AddPath(ids) ==
    /\ ~ (Limit(maxNum, ids) > 0 /\ Len(path) + Len(ids) > Limit(maxNum, ids))
    /\ path' = path \o ids
    /\ UNCHANGED maxNum

Next ==
    \/ \E num \in -1..(MaxLen + 1) : SetMaxNum(num)
    \/ \E given \in Given : SetPath(given)
    \/ \E ids \in Strings(MaxLen - Len(path)) : AddPath(ids)

Spec == Init /\ [][Next]_<<path, maxNum>>

---------------------------------------------------------------------------
Queries == BoundedSeq(Words, MaxLen + 1)

Merged(ids) == Merge(path, maxNum, ids)

(* Types, for a connection whose path and limit are set in any order.      *)
TypeOK == path \in Seq(Words) /\ maxNum \in Nat

(* A name that was completed once is not completed again: the analyzer,    *)
(* the specs and the SQL formatter all complete the names they are given   *)
(* (name_path.go:53-73).                                                   *)
MergeIdempotent == \A ids \in Queries : Merged(Merged(ids)) = Merged(ids)

(* Completing a name never makes it longer than the limit                  *)
(* (name_path.go:67-69).                                                   *)
MergeWithinLimit ==
    \A ids \in Queries \ {<<>>} :
        maxNum > 0 /\ Len(ids) <= Limit(maxNum, ids) =>
            Len(Merged(ids)) <= Limit(maxNum, ids)

(* An object of the name path may be called by its own name, or with any   *)
(* number of the identifiers before it: all of them are the same name, if  *)
(* identifiers are not repeated and the limit leaves room for its full     *)
(* name (name_path.go:63-72).                                              *)
FullName(name) == path \o <<name>>

SpellingsAgree ==
    \A name \in Words :
        /\ IsInjective(FullName(name))
        /\ ~ IsInformationSchema(FullName(name))
        /\ maxNum = 0 \/ maxNum >= Len(FullName(name))
        => \A i \in DOMAIN FullName(name) :
            Merged(SubSeq(FullName(name), i, Len(FullName(name)))) = FullName(name)
=============================================================================
