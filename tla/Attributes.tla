----------------------------- MODULE Attributes -----------------------------
(***************************************************************************)
(* What the receivers read from the attributes of a resource or a span: a  *)
(* list of named values in any order, some without a value, some of        *)
(* another kind than expected, a name possibly more than once.             *)
(***************************************************************************)
EXTENDS Integers, Sequences

CONSTANT PeerLabel    \* HOSE_PEER_ID_LABEL, "hopr.peer_id" when it is not set

Empty == ""
\* A value is a "string", an "int", of some "other" kind, or "missing".
Attribute(key, kind, value) == [key |-> key, kind |-> kind, value |-> value]

\* string_val in extract_peer_id: the first attribute of the name decides.
StringVal(attrs, key) ==
    LET named == SelectSeq(attrs, LAMBDA a : a.key = key)
    IN  IF named # <<>> /\ Head(named).kind = "string" /\ Head(named).value # Empty
        THEN {Head(named).value} ELSE {}

\* extract_peer_id: at most one, by the label or else by the standard name.
PeerIds(attrs) ==
    LET labelled == StringVal(attrs, PeerLabel)
    IN  IF labelled # {} THEN labelled ELSE StringVal(attrs, "service.instance.id")

\* extract_string_attr: the first that has a value decides; what is no string,
\* or is not there, reads as empty.
StringAttr(attrs, key) ==
    LET valued == SelectSeq(attrs, LAMBDA a : a.key = key /\ a.kind # "missing")
    IN  IF valued # <<>> /\ Head(valued).kind = "string" THEN Head(valued).value ELSE Empty

\* extract_int_attr: the first integer of the name.
IntAttr(attrs, key) ==
    LET integers == SelectSeq(attrs, LAMBDA a : a.key = key /\ a.kind = "int")
    IN  IF integers = <<>> THEN 0 ELSE Head(integers).value

\* What a span says of a HOPR session.
SpanOf(attrs) ==
    [session |-> StringAttr(attrs, "hopr.session.id"),
     protocol |-> StringAttr(attrs, "hopr.session.protocol"),
     hops |-> IntAttr(attrs, "hopr.session.hops"),
     role |-> StringAttr(attrs, "hopr.session.role")]
=============================================================================
