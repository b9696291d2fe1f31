------------------------------- MODULE MCHelpers -------------------------------
(***************************************************************************)
(* Helpers on small words: words of three bits and sums of six for the     *)
(* checksum, numbers of seven bits, the protocols and ports of urls, and   *)
(* texts of two letters and a signed character.                            *)
(***************************************************************************)
EXTENDS Helpers

MCServices == [s \in {"http", "ftp"} |-> IF s = "http" THEN 80 ELSE 21]
MCNumbers  == [s \in {"8080", "70000"} |-> IF s = "8080" THEN 8080 ELSE 70000]
MCStarts   == [s \in {"8080", "70000"} |-> IF s = "8080" THEN {8, 80, 808, 8080}
                                            ELSE {7, 70, 700, 7000, 70000}]
MCChars    == {65, 97, -3}   \* 'A', 'a' and one above 127
================================================================================
