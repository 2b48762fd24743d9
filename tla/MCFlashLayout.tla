---------------------------- MODULE MCFlashLayout ----------------------------
(* Flashing cards whose sizes lie around the boundaries. *)
EXTENDS FlashLayout

MB == SECTOR * MBYTE
SomeSizes ==
    UNION {{n * MB, n * MB + 1, n * MB + SECTOR, (n + 1) * MB - 1} : n \in {19, 20, 122}}
SomeUboots == {1, 500, 7 * MBYTE, 7 * MBYTE + 1, 16 * MBYTE + 1}
SomeRootfs ==
    {1} \cup UNION {{n * MBYTE, n * MBYTE + 1} : n \in {2, 3, 10, 11, 12, 105, 113}}
=============================================================================
