------------------------- MODULE MCPackageLifecycle -------------------------
(* Small instances of PackageLifecycle for TLC.                            *)
EXTENDS PackageLifecycle, TLC

CONSTANTS p1, p2, p3, app

MCPackage == {p1, p2}
MCTriple == {p1, p2, p3}
MCIdentifier == {app, RootTools}

\* Packages of the application or of RootTools: what their files say they
\* are and what their uploader says.
MCDebs == [p \in MCPackage |-> "deb"]
MCMixed == (p1 :> "deb") @@ (p2 :> "deb") @@ (p3 :> "ipa")
MCOneApp == [p \in MCTriple |-> app]
MCSelf == [p \in MCPackage |-> RootTools]
MCAllSelf == [p \in MCTriple |-> RootTools]
MCHalf == (p1 :> app) @@ (p2 :> None) @@ (p3 :> None)
MCHalfSelf == (p1 :> RootTools) @@ (p2 :> None) @@ (p3 :> None)
MCUnattested == [p \in MCPackage |-> None]
=============================================================================
