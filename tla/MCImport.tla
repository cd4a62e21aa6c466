------------------------------ MODULE MCImport ------------------------------
(***************************************************************************)
(* Small file systems for FexImport.                                       *)
(***************************************************************************)
EXTENDS FexImport, TLC

Fex(at) == File(at, FALSE)
Index(at) == File(at, TRUE)
Bare(segs) == Specifier(segs, FALSE)
Dot(n) == Specifier(<<n>>, TRUE)

MCName == {"a", "b", "c", "d", "m", "v"}
Lib == <<<<"lib">>>>

\* Files of the same name in three directories, found from each other.
SameNames ==
  Fex(<<"b">>) :> <<Define(Bare(<<"d">>)), Export("v")>>
  @@ Index(<<"a">>) :> <<Import(Bare(<<"c">>)), Export("v")>>
  @@ Fex(<<"a", "c">>) :> <<Import(Bare(<<"b">>)), Export("v")>>
  @@ Fex(<<"a", "b">>) :> <<Export("v"), Import(Dot("d"))>>
  @@ Fex(<<"lib", "d">>) :> <<Import(Bare(<<"b">>)), Export("v")>>

\* A cycle through a package, and an export with the name of a package.
Cycles ==
  Fex(<<"a">>) :> <<Export("b"), Import(Bare(<<"c">>))>>
  @@ Fex(<<"c">>) :> <<Import(Bare(<<"d">>)), Export("v")>>
  @@ Fex(<<"d">>) :> <<Export("v"), Import(Bare(<<"c">>))>>
  @@ Fex(<<"a", "b", "c">>) :> <<Export("v")>>
  @@ Fex(<<"m">>) :> <<Import(Bare(<<"a">>)), Export("v")>>

\* The same without the cycle.
Package ==
  Fex(<<"a">>) :> <<Export("b")>>
  @@ Fex(<<"a", "b", "c">>) :> <<Export("v")>>
  @@ Fex(<<"m">>) :> <<Import(Bare(<<"a">>)), Export("v")>>
  @@ Index(<<"c", "d">>) :> <<Import(Bare(<<"a">>)), Export("v")>>

\* A module block in a file, and a file that exports nothing.
Blocks ==
  Fex(<<"a", "m">>) :> <<Block("m")>>
  @@ Fex(<<"a", "c">>) :> <<Import(Bare(<<"a", "m">>))>>
  @@ Fex(<<"b">>) :> <<Import(Bare(<<"a", "m">>)), Import(Bare(<<"d">>))>>
  @@ Fex(<<"lib", "d">>) :> <<Export("v"), Import(Bare(<<"a", "c">>))>>

MCScripts ==
  SameNames :> {Import(Bare(<<"a">>)), Import(Bare(<<"b">>)), Import(Bare(<<"a", "b">>)), Import(Dot("d")),
                CallAny, Assign("a"), Assign("b"), Export("v")}
  @@ Cycles :> {Import(Bare(<<"a">>)), Import(Bare(<<"c">>)), Import(Bare(<<"a", "b", "c">>)),
                Import(Bare(<<"m">>)), Assign("a")}
  @@ Package :> {Import(Bare(<<"a">>)), Import(Bare(<<"a", "b", "c">>)), Import(Bare(<<"c", "d">>)),
                 Import(Dot("m")), Import(Bare(<<"v">>)), Assign("a"), Assign("c")}
  @@ Blocks :> {Import(Bare(<<"a">>)), Import(Bare(<<"a", "m">>)), Import(Bare(<<"a", "c">>)),
                Import(Bare(<<"b">>)), Import(Dot("d")), Assign("a"), Assign("m")}

=============================================================================
