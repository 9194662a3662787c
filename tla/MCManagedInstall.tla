-------------------------- MODULE MCManagedInstall --------------------------
(* A small instance of ManagedInstall for TLC. *)
EXTENDS ManagedInstall, TLC

CONSTANTS q1, q2
MCRequests == Permutations({q1, q2})

MCTime == {0, 3}
MCPackage1 == [version |-> 1, archive |-> "one", contract |-> 1]
MCPackage2 == [version |-> 2, archive |-> "two", contract |-> 1]
MCForgery == [version |-> 3, archive |-> "forged", contract |-> 1]
MCReviewed == {MCPackage1, MCPackage2}

\* The first root gives one key to each role; the second replaces the online
\* keys, asks for two signatures on targets, and never trusts "old" again.
MCRoot1 == [version |-> 1, issued |-> 0, expires |-> 3, sigs |-> {"root"},
            keys |-> [root |-> {"root"}, timestamp |-> {"old"}, snapshot |-> {"old2"}, targets |-> {"old3"}],
            threshold |-> [role \in Roles |-> 1]]
MCRoot2 == [version |-> 2, issued |-> 0, expires |-> 9, sigs |-> {"root", "root2"},
            keys |-> [root |-> {"root2"}, timestamp |-> {"ts"}, snapshot |-> {"sn"}, targets |-> {"t1", "t2"}],
            threshold |-> [role \in Roles |-> IF role = "targets" THEN 2 ELSE 1]]
\* A root of the same version that nobody but its own key has signed.
MCRogue == [MCRoot2 EXCEPT !.sigs = {"rogue"},
            !.keys = [root |-> {"rogue"}, timestamp |-> {"ts"}, snapshot |-> {"sn"}, targets |-> {"t1"}],
            !.threshold = [role \in Roles |-> 1]]
MCPinned == {MCRoot1}

Chain(version, package, until, ts, sn, tg) ==
    [version |-> version, issued |-> 0, expires |-> until, sigs |-> ts,
     snapshot |-> [version |-> version, issued |-> 0, expires |-> 9, sigs |-> sn,
        targets |-> [version |-> version, issued |-> 0, expires |-> 9, sigs |-> tg, package |-> package]]]

MCChain1 == Chain(1, MCPackage1, 3, {"old", "ts"}, {"old2", "sn"}, {"old3", "t1", "t2"})
MCChain2 == Chain(2, MCPackage2, 9, {"ts"}, {"sn"}, {"t1", "t2"})
MCForged == Chain(3, MCForgery, 9, {"old", "ts"}, {"old2", "sn"}, {"t1"})

Offer(roots, t, s) ==
    [package |-> s.targets.package,
     dir |-> [roots |-> roots, timestamp |-> t, snapshot |-> s, targets |-> s.targets]]

\* The first release before the rotation and with it; the same release under
\* another snapshot of the same version; the second release; and a package
\* signed by replaced keys, or by one stolen key, with the true or a false root.
MCOffered ==
    {Offer({}, MCChain1, MCChain1.snapshot), Offer({MCRoot2}, MCChain1, MCChain1.snapshot),
     Offer({MCRoot2}, MCChain1, [MCChain1.snapshot EXCEPT !.expires = 8]),
     Offer({MCRoot2}, [MCChain1 EXCEPT !.expires = 4], MCChain1.snapshot),
     Offer({MCRoot2}, MCChain2, MCChain2.snapshot),
     Offer({MCRoot2}, MCForged, MCForged.snapshot), Offer({MCRogue}, MCForged, MCForged.snapshot)}
=============================================================================
