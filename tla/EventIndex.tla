----------------------------- MODULE EventIndex -----------------------------
(***************************************************************************)
(* The numbering of events: derive(Finite) gives each value of a type of   *)
(* finitely many values a number, by which the event server, the VMMs and  *)
(* the guests index their tables and bitfields.  The behaviour is that of  *)
(* test_exhaustively_and_slowly(), for one type after the other.           *)
(*                                                                         *)
(* A type is the sequence of its variants, a variant that of the types of  *)
(* its fields.  A value is a pair: number of the variant, values of fields. *)
(* A value of a type that is not derived is a number.                      *)
(***************************************************************************)
EXTENDS Integers, Sequences, FiniteSets

CONSTANT Checked    \* types that are tested

VARIABLES ty, i, j
vars == <<ty, i, j>>

NUM_REALMS == 2
SPI_START == 32
SPI_END == 1020

(* The types of finite-set's test and of the events.                       *)
Type == [
    A |-> <<<<>>, <<>>>>,
    B |-> <<<<>>, <<>>, <<>>>>,
    C |-> <<<<"A", "B">>, <<"A", "B">>>>,
    RealmRingBufferId |-> <<<<>>, <<>>>>,
    HostRingBufferIn |-> <<<<>>, <<>>, <<"RealmId", "RealmRingBufferId">>>>,
    HostRingBufferOut |-> <<<<"RealmId", "RealmRingBufferId">>>>,
    HostIn |-> <<<<>>, <<"SPI">>, <<"HostRingBufferIn">>>>,
    HostOut |-> <<<<"HostRingBufferOut">>>>,
    RealmRingBufferIn |-> <<<<"RealmRingBufferId">>, <<>>>>,
    RealmRingBufferOut |-> <<<<"RealmRingBufferId">>>>,
    RealmIn |-> <<<<"RealmRingBufferIn">>>>,
    RealmOut |-> <<<<"RealmRingBufferOut">>>>,
    SerialServerRingBuffer |-> <<<<>>, <<"RealmId">>>>,
    SerialServerOut |-> <<<<"SerialServerRingBuffer">>>>,
    ResourceServerOut |-> <<<<>>>>]

Upto(f, n) == SubSeq(f, 1, n)

RECURSIVE cardinality(_), cardinality_of_variant(_), cardinality_of_structure(_)

cardinality_of_variant(fields) ==
    IF fields = <<>> THEN 1
    ELSE cardinality_of_variant(Tail(fields)) * cardinality(Head(fields))
cardinality_of_structure(variants) ==
    IF variants = <<>> THEN 0
    ELSE cardinality_of_structure(Tail(variants)) + cardinality_of_variant(Head(variants))
cardinality(type) ==
    CASE type = "RealmId" -> NUM_REALMS
      [] type = "SPI" -> SPI_END - SPI_START
      [] OTHER -> cardinality_of_structure(Type[type])

RECURSIVE to_nat(_, _), fields_to_nat(_, _)

(* Mutant: the fields before the last one are not counted in.              *)
Mut_fields_to_nat(types, vals) ==
    IF types = <<>> THEN 0
    ELSE fields_to_nat(Upto(types, Len(types) - 1), vals) + to_nat(types[Len(types)], vals[Len(types)])

(* The sum of n_past_fields times the number of the field.                 *)
fields_to_nat(types, vals) ==
    IF types = <<>> THEN 0
    ELSE LET past == Upto(types, Len(types) - 1)
         IN  fields_to_nat(past, vals)
                 + cardinality_of_variant(past) * to_nat(types[Len(types)], vals[Len(types)])
to_nat(type, x) ==
    CASE type = "RealmId" -> x
      [] type = "SPI" -> x + SPI_START
      [] OTHER -> cardinality_of_structure(Upto(Type[type], x[1] - 1))
                      + fields_to_nat(Type[type][x[1]], x[2])

RECURSIVE from_nat(_, _)

(* The first variant whose numbers end after n.                            *)
variant_of(type, n) ==
    CHOOSE k \in DOMAIN Type[type] :
        n < cardinality_of_structure(Upto(Type[type], k))
        /\ \A l \in DOMAIN Type[type] : n < cardinality_of_structure(Upto(Type[type], l)) => k <= l

(* n below the cardinality.  (For an SPI the subtraction of usizes wraps   *)
(* around or panics below 0; a negative number stands for either.)         *)
from_nat(type, n) ==
    CASE type = "RealmId" -> n
      [] type = "SPI" -> n - SPI_START
      [] OTHER ->
            LET k == variant_of(type, n)
                fields == Type[type][k]
                m == n - cardinality_of_structure(Upto(Type[type], k - 1))
            IN  <<k, [f \in DOMAIN fields |->
                        from_nat(fields[f], (m \div cardinality_of_variant(Upto(fields, f - 1)))
                                                % cardinality(fields[f]))]>>

----------------------------------------------------------------------------
(* test_exhaustively_and_slowly::<ty>().                                   *)
Init == ty \in Checked /\ i = 0 /\ j = 0

Inner ==
    /\ j < i
    /\ j' = j + 1
    /\ UNCHANGED <<ty, i>>

Outer ==
    /\ j = i /\ i + 1 < cardinality(ty)
    /\ i' = i + 1
    /\ j' = 0
    /\ UNCHANGED ty

Next == Inner \/ Outer
Spec == Init /\ [][Next]_vars

----------------------------------------------------------------------------
(* For reference: the values of a type.  An SPI is the number of a shared  *)
(* interrupt, from START to END.                                           *)
RECURSIVE Values(_), FieldValues(_)
FieldValues(fields) ==
    IF fields = <<>> THEN {<<>>}
    ELSE {<<x>> \o xs : x \in Values(Head(fields)), xs \in FieldValues(Tail(fields))}
Values(type) ==
    CASE type = "RealmId" -> 0 .. NUM_REALMS - 1
      [] type = "SPI" -> SPI_START .. SPI_END - 1
      [] OTHER -> UNION {{<<k, xs>> : xs \in FieldValues(Type[type][k])} : k \in DOMAIN Type[type]}

TypeOK ==
    /\ ty \in Checked
    /\ i \in 0 .. Cardinality(Values(ty)) - 1
    /\ j \in 0 .. i

(* Each value has a number below CARDINALITY, the precondition of          *)
(* from_nat(), and no other value has it; as the servers, which index by   *)
(* these numbers, rely on.  And the other way, as in                       *)
(* test_exhaustively_and_slowly(), "assert!(i == x.to_nat())" and          *)
(* "assert!(x != T::from_nat(j))": the number of the value of number i is  *)
(* i, and values of different numbers differ.                              *)
EachValueHasItsNumber ==
    /\ i = 0 => \A x \in Values(ty) :
           to_nat(ty, x) < cardinality(ty) /\ from_nat(ty, to_nat(ty, x)) = x
    /\ to_nat(ty, from_nat(ty, i)) = i
    /\ j < i => from_nat(ty, i) # from_nat(ty, j)
=============================================================================
