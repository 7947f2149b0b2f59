----------------------------- MODULE IndexKeys -----------------------------
(***************************************************************************)
(* The keys of index entries and the lookups over them, byte by byte:      *)
(* internal/query/sql/index/{encoding,manager,ops}.go over the scans of    *)
(* internal/storage. Module Queries takes from here that a lookup returns  *)
(* the rows of a range of values in the order of the values.               *)
(*                                                                         *)
(* A byte is one of 0..Top, where 0 separates and Top stands for 0xFF. A   *)
(* number is a sign and a magnitude of two bytes without the sign's bit.   *)
(***************************************************************************)
EXTENDS Integers, Sequences, FiniteSets, SequencesExt, TLC

CONSTANTS Top,           \* the largest byte, odd
          Upper          \* the bytes that are upper-case letters; the next byte is the lower-case one

ASSUME IndexKeysAssumption == Top \in Nat /\ Top % 2 = 1 /\ Upper \subseteq 1..(Top - 1)

VARIABLES keyed,      \* keyed[n][id]: the value of row id in the index with the name n
          lookup,     \* the last lookup
          found       \* the row ids it returned

keyVars == <<keyed, lookup, found>>

Text(bytes) == [kind |-> "text", negative |-> FALSE, bytes |-> bytes, magnitude |-> 0]
Number(negative, magnitude) == [kind |-> "number", negative |-> negative, bytes |-> << >>, magnitude |-> magnitude]
Nil == [kind |-> "nil", negative |-> FALSE, bytes |-> << >>, magnitude |-> 0]
NoLookup == [op |-> "none"]

\* bytes.Compare.
Less(a, b) ==
    \E k \in 1..Len(b) : /\ \A j \in 1..(k - 1) : j <= Len(a) /\ a[j] = b[j]
                         /\ k <= Len(a) => a[k] < b[k]

-----------------------------------------------------------------------------
(* Keys.                                                                   *)

NulTag == <<0>>
NumberTag == <<1>>
TextTag == <<2>>

Escaped(bytes) == FlattenSeq([k \in 1..Len(bytes) |-> IF bytes[k] = 0 THEN <<0, Top>> ELSE <<bytes[k]>>])

\* encodeNumber: the sign's bit of a number from 0 up (-0 too) is turned over, and every bit
\* of a negative one. The first byte holds the sign's bit.
Half == (Top + 1) \div 2
Bits(v) == (IF v.negative THEN Half * (Top + 1) ELSE 0) + v.magnitude
Turned(v) == IF v.negative /\ v.magnitude # 0 THEN (Top + 1) * (Top + 1) - 1 - Bits(v)
             ELSE (Bits(v) + Half * (Top + 1)) % ((Top + 1) * (Top + 1))

NumberBytes(v) == <<Turned(v) \div (Top + 1), Turned(v) % (Top + 1)>>

\* encodeString folds the case.
Folding(bytes) == [k \in 1..Len(bytes) |-> IF bytes[k] \in Upper THEN bytes[k] + 1 ELSE bytes[k]]

EncodeValue(v) ==
    CASE v.kind = "nil" -> NulTag
      [] v.kind = "number" -> NumberTag \o Escaped(NumberBytes(v))
      [] v.kind = "text" -> TextTag \o Escaped(Folding(v.bytes))

\* indexDataPrefix, entryKeyPrefix and entryKey.
DataPrefix(name) == Append(name, 0)
EntryKeyPrefix(name, v) == DataPrefix(name) \o EncodeValue(v) \o <<0>>
EntryKey(name, v, id) == EntryKeyPrefix(name, v) \o id

Stored == UNION {{EntryKey(n, keyed[n][id], id) : id \in DOMAIN keyed[n]} : n \in DOMAIN keyed}

\* Mutant: what follows the first separator.
AfterFirst(key, prefix) ==
    LET sep == Min({k \in DOMAIN key : key[k] = 0 /\ k > Len(prefix)}) IN SubSeq(key, sep + 1, Len(key))

\* decodeRowID: what follows the last separator.
DecodeRowID(key, prefix) == LET sep == Max({k \in DOMAIN key : key[k] = 0}) IN SubSeq(key, sep + 1, Len(key))

-----------------------------------------------------------------------------
(* Scans and lookups.                                                      *)

\* PrefixRange: one more in the last byte that is not Top, and 0 in those after it. There is
\* no end to a prefix of Top alone.
NoEnd == <<Top + 1>>
PrefixEnd(prefix) ==
    LET below == {k \in DOMAIN prefix : prefix[k] < Top}
    IN  IF below = {} THEN NoEnd
        ELSE [k \in DOMAIN prefix |-> IF k = Max(below) THEN prefix[k] + 1 ELSE IF k > Max(below) THEN 0 ELSE prefix[k]]

\* The iterator's keys from start up to end, without end.
Scan(start, end) ==
    LET S == {k \in Stored : ~Less(k, start) /\ Less(k, end)}
    IN  SortSeq(SetToSeq(S), Less)

LookupEqual(name, v) ==
    LET prefix == EntryKeyPrefix(name, v)
        keys == Scan(prefix, PrefixEnd(prefix))
    IN  [k \in 1..Len(keys) |-> SubSeq(keys[k], Len(prefix) + 1, Len(keys[k]))]

RangeStart(name, low, withLow) ==
    CASE low = Nil -> DataPrefix(name)
      [] low # Nil /\ withLow -> EntryKeyPrefix(name, low)
      [] low # Nil /\ ~withLow -> Append(EntryKeyPrefix(name, low), Top)

RangeEnd(name, high, withHigh) ==
    CASE high = Nil -> PrefixEnd(DataPrefix(name))
      [] high # Nil /\ withHigh -> Append(EntryKeyPrefix(name, high), Top)
      [] high # Nil /\ ~withHigh -> EntryKeyPrefix(name, high)

LookupRange(name, low, high, withLow, withHigh) ==
    LET keys == Scan(RangeStart(name, low, withLow), RangeEnd(name, high, withHigh))
    IN  [k \in 1..Len(keys) |-> DecodeRowID(keys[k], DataPrefix(name))]

-----------------------------------------------------------------------------
KeysInit(values) == keyed = values /\ lookup = NoLookup /\ found = << >>

FindEqual(name, v) ==
    /\ lookup = NoLookup
    /\ lookup' = [op |-> "equal", name |-> name, low |-> v, high |-> v, withLow |-> TRUE, withHigh |-> TRUE]
    /\ found' = LookupEqual(name, v)
    /\ UNCHANGED keyed

FindRange(name, low, high, withLow, withHigh) ==
    /\ lookup = NoLookup
    /\ lookup' = [op |-> "range", name |-> name, low |-> low, high |-> high, withLow |-> withLow, withHigh |-> withHigh]
    /\ found' = LookupRange(name, low, high, withLow, withHigh)
    /\ UNCHANGED keyed

-----------------------------------------------------------------------------
(* What a lookup promises.                                                 *)

\* The order of values: nil, then numbers by size, then texts up to case.
KindsInOrder == <<"nil", "number", "text">>
Size(v) == IF v.negative THEN 0 - v.magnitude ELSE v.magnitude
Under(v, w) ==
    \/ \E j, k \in 1..3 : j < k /\ v.kind = KindsInOrder[j] /\ w.kind = KindsInOrder[k]
    \/ v.kind = "number" /\ w.kind = "number" /\ Size(v) < Size(w)
    \/ v.kind = "text" /\ w.kind = "text" /\ Less(Folding(v.bytes), Folding(w.bytes))

Within(v, l) ==
    /\ (l.op = "range" /\ l.low = Nil) \/ Under(l.low, v) \/ (l.withLow /\ ~Under(v, l.low))
    /\ (l.op = "range" /\ l.high = Nil) \/ Under(v, l.high) \/ (l.withHigh /\ ~Under(l.high, v))

\* -0 sorts below every other number, and a text with a NUL among those it extends.
Plain(v) == ~(v.negative /\ v.magnitude = 0) /\ 0 \notin Range(v.bytes)

\* EncodeValue, the separators and the bounds of LookupEqual and LookupRange: whatever the
\* values, a lookup returns the rows of its own index whose value is in the range, each once,
\* ordered by value and then by id, although keys of other indexes and values that extend one
\* another lie side by side.
LookupsExact ==
    lookup # NoLookup /\ Plain(lookup.low) /\ Plain(lookup.high)
                      /\ (\A id \in DOMAIN keyed[lookup.name] : Plain(keyed[lookup.name][id])) =>
        LET value == keyed[lookup.name] IN
        /\ Range(found) = {id \in DOMAIN value : Within(value[id], lookup)}
        /\ \A j, k \in DOMAIN found : j < k =>
               \/ Under(value[found[j]], value[found[k]])
               \/ ~Under(value[found[k]], value[found[j]]) /\ Less(found[j], found[k])
=============================================================================
