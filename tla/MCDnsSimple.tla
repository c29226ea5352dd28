----------------------------- MODULE MCDnsSimple -----------------------------
(* Inputs for DnsSimple: five files, one of them empty.                     *)
EXTENDS DnsSimple

FiveFiles == <<6, 0, 5, 7, 2>>
=============================================================================
