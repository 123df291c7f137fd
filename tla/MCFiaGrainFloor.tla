--------------------------- MODULE MCFiaGrainFloor ---------------------------
(***************************************************************************)
(* FiaGrainFloor on one core.  The default depth: KV lengths on and around *)
(* the boundaries, so none, one row, a page and a row, one stack, a row    *)
(* into the third and the fourth stack, four stacks.  Other depths, which  *)
(* return or hang: one, two, three, five, six and eight pages, and tasks   *)
(* of up to 17 pages, with a task behind that could take over what the     *)
(* first left loaded.                                                      *)
(***************************************************************************)
EXTENDS FiaGrainFloor

Launch(kv, stackNumOverride) == [kv |-> kv, stackNumOverride |-> stackNumOverride]

MCLaunches ==
    {Launch(kv, 0) : kv \in {<<1025, 0, 512>>, <<129, 2048>>, <<1, 1537>>}}
    \cup {Launch(<<kv>>, 1) : kv \in {0, 128, 129, 500}}
    \cup {Launch(<<kv, 100>>, 2) : kv \in {256, 257, 512}}
    \cup {Launch(<<384, 500>>, 3), Launch(<<512, 100>>, 3), Launch(<<384, 1>>, 3)}
    \cup {Launch(<<kv, 128>>, 5) : kv \in {512, 513, 1100}}
    \cup {Launch(<<1200, 700>>, 6), Launch(<<1200, 1281>>, 6)}
    \cup {Launch(<<kv, 128>>, 8) : kv \in {512, 600, 1025, 1536, 1537, 2049}}
=============================================================================
