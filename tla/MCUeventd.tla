------------------------------ MODULE MCUeventd ------------------------------
(* Two configuration files, the first of up to three lines and the second  *)
(* of up to two, over every kind of line ParseUeventConfig tells apart.    *)
EXTENDS Ueventd

Hdr(s)      == [kind |-> "header", name |-> s, closed |-> TRUE]
Unclosed(s) == [kind |-> "header", name |-> s, closed |-> FALSE]
Item(t)     == [kind |-> "item", toks |-> t]

MCLines ==
    { Hdr("device"), Hdr("sysfs"), Hdr("firmware"), Hdr("bogus"),
      Unclosed("sysfs"),
      [kind |-> "skip"],
      Item(<<"n1", "m660", "u1", "g1">>),          \* a [device] item
      Item(<<"p1", "a1", "m644", "u1", "g1">>),    \* a [sysfs] item
      Item(<<"d1">>) }                             \* a [firmware] item

MCConfigs == {<<a, b>> : a \in BoundedSeq(MCLines, 3), b \in BoundedSeq(MCLines, 2)}

====
