---------------------------- MODULE MCIpsUpdater ----------------------------
(* Two sources: one with a Suricata version, a patch, two full archives    *)
(* and two files, and one with one archive.                                *)
EXTENDS IpsUpdater

Et    == "emerging"
Own   == "own"
MCSources   == <<Et, Own>>
MCVersioned == {Et}
MCFilesOf   == [s \in {Et, Own} |-> IF s = Et THEN {"e1", "e2"} ELSE {"o1"}]

PatchV(s) == [source |-> s, patch |-> TRUE, versioned |-> TRUE]
FullV(s)  == [source |-> s, patch |-> FALSE, versioned |-> TRUE]
FullU(s)  == [source |-> s, patch |-> FALSE, versioned |-> FALSE]

MCOffers   == {{FullV(Et)}, {PatchV(Et), FullU(Et), FullU(Own)}}
FewOffers  == {{FullV(Et), FullU(Own)}, {PatchV(Et), FullU(Own)}}

Growing == [r \in 1 .. MaxRev |-> r]

(* Every file is new in revision 1; revision 2 changes one file of each    *)
(* source, and revision 3 the other of the first.                          *)
InTurn == [r \in 1 .. MaxRev |->
             IF r = 2 THEN {"e1", "o1"} ELSE IF r = 3 THEN {"e2"} ELSE {"e1", "e2", "o1"}]
=============================================================================
