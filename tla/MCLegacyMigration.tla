------------------------- MODULE MCLegacyMigration -------------------------
(* The account of a one-line file also stands in a long file, and a file   *)
(* may be empty.                                                           *)
EXTENDS LegacyMigration

CONSTANTS a, b

MCContents == {<< <<a, b>>, <<b>>, <<a>> >>, << <<b>>, <<>>, <<a>> >>}

=============================================================================
