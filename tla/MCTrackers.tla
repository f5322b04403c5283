---------------------------- MODULE MCTrackers ----------------------------
(* A small instance of Trackers for TLC. *)
EXTENDS Trackers

CONSTANTS p1, p2, s1, s2, tcp, udp

\* The label; the standard name, with a label that is empty, or no string, or
\* follows; and no peer at all, as the first of two labels has no value.
Named(p) == Attribute(PeerLabel, "string", p)
Instance(p) == Attribute("service.instance.id", "string", p)
MCResources == {
    <<Instance(p2), Named(p1)>>,
    <<Named(Empty), Instance(p2)>>,
    <<Attribute(PeerLabel, "int", 1), Instance(p1)>>,
    <<Attribute(PeerLabel, "missing", 0), Named(p1)>>}

Session(s) == Attribute("hopr.session.id", "string", s)
Protocol(p) == Attribute("hopr.session.protocol", "string", p)
Hops(n) == Attribute("hopr.session.hops", "int", n)
Role(r) == Attribute("hopr.session.role", "string", r)

\* A hop count past the modulus, and negative, and behind one that is no number;
\* a role that is not entry or exit; a session id without a value before the one
\* that counts, and one that is no string.
SpanA == <<Role("entry"), Hops(1), Protocol(tcp), Session(s1)>>
SpanB == <<Session(s1), Protocol(udp), Attribute("hopr.session.hops", "string", udp), Hops(5)>>
SpanC == <<Attribute("hopr.session.id", "missing", 0), Session(s2), Hops(-1), Role("exit")>>
SpanD == <<Attribute("hopr.session.id", "int", 1), Session(s1)>>
MCSpanLists == {<<>>, <<SpanA>>, <<SpanB, SpanA>>, <<SpanD, SpanC>>}
=============================================================================
