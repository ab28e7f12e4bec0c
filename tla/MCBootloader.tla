--------------------------- MODULE MCBootloader ----------------------------
(* Bootloader for TLC. *)
EXTENDS Bootloader, TLC

\* Two pin configurations; the two pipes there is room for and three, as the
\* sketches pass; a timeout of a byte, and one above.
SomeConfigs ==
    [pins : {0, 1}, pipes : {<<1, 2>>}, timeout : {0, 1}]
        \cup {[pins |-> 0, pipes |-> <<1, 2, 3>>, timeout |-> Byte]}
=============================================================================
