------------------------ MODULE MCAltServerSelection ------------------------
EXTENDS AltServerSelection

CONSTANTS s1, s2, r1

MCHosts == {s1, s2}
MCReliable == {s1}
MCReqs == {r1}

\* RTT_THRESHOLD_FACTOR is not defined in the sources; the specification's
\* failover scenario uses a factor of 4.
MCThresholdFactor(us) == 4 * us

\* The image the ioctl asks for (revision 1 of "img"), and the replies to
\* CMD_SELECT_IMAGE: s1 serves it; s2 may also answer with another
\* revision, another size, another name or a protocol version below
\* MIN_SUPPORTED_SERVER (2 here; the value is defined outside the sources).
MCRequest == [name |-> "img", rid |-> 1]
Good == [version |-> 3, name |-> "img", rid |-> 1, size |-> 8192]
MCReplies(h) ==
    IF h = s1 THEN {Good}
    ELSE {Good, [Good EXCEPT !.rid = 2], [Good EXCEPT !.size = 12288],
          [Good EXCEPT !.name = "other"], [Good EXCEPT !.version = 1]}
====
