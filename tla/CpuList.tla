------------------------------ MODULE CpuList ------------------------------
(***************************************************************************)
(* cpu_list_to_mask: the CPUs of a list such as 1,3,4-8, as the mask that  *)
(* nfv_run_in_container gives to taskset.  A list is its numbers, each     *)
(* with the delimiter before it (delim_last) and whether another one       *)
(* follows that; a mask is the set of its bits, of a type that is wide     *)
(* enough.                                                                 *)
(***************************************************************************)
EXTENDS Naturals

Items == [delim : {",", "-"}, doubled : BOOLEAN, cpu : Nat]
IsList(list) == \E n \in Nat : list \in [1 .. n -> Items]

\* cpu_last when the loop comes to an item.
Last(list, k) == IF k = 1 THEN 0 ELSE list[k - 1].cpu

\* The bits an item sets.
Bits(list, k) ==
  IF list[k].delim = "," THEN {list[k].cpu}
  ELSE {c \in Nat : Last(list, k) <= c /\ c < list[k].cpu}

Mask(list) == UNION {Bits(list, k) : k \in DOMAIN list}

\* EXIT_FAILURE: an item that does not begin right after the delimiter.
Malformed(list) == \E k \in DOMAIN list : k # 1 /\ list[k].doubled

\* What the same list means to taskset -c, and to DPDK, which gets it by -l.
Meant(list, k) ==
  IF list[k].delim = "," THEN {list[k].cpu}
  ELSE {c \in Nat : Last(list, k) <= c /\ c <= list[k].cpu}
CpusMeant(list) == UNION {Meant(list, k) : k \in DOMAIN list}

Ascending(list) ==
  \A k \in DOMAIN list : list[k].delim = "-" => Last(list, k) <= list[k].cpu
RangeEnds(list) == {list[k].cpu : k \in {j \in DOMAIN list : list[j].delim = "-"}}
=============================================================================
