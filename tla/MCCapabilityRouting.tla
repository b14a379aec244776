------------------------ MODULE MCCapabilityRouting ------------------------
(***************************************************************************)
(* Small instances of CapabilityRouting: a host with a binding for model m *)
(* and a late one, three plugins, a contract kk with two cells per model   *)
(* and a contract ss with one that only plugins bind.                      *)
(***************************************************************************)
EXTENDS CapabilityRouting

CONSTANTS m, n, kk, ss, h1, h2, p1, q1, q2, pp, qq, rr

MCVolume == (kk :> 2 @@ ss :> 1)

MCHome ==
  Restrict(h1 :> Host @@ h2 :> Host @@ p1 :> pp @@ q1 :> qq @@ q2 :> qq, Populator)

(* pp binds the model of the host, qq that and the one the late binding    *)
(* binds.                                                                  *)
MCBound == Restrict(h1 :> m @@ h2 :> n @@ p1 :> m @@ q1 :> n @@ q2 :> m, Populator)

Cap(c, kinds) == [contract |-> c, kinds |-> kinds]

(* h1 has a rule and a fallback for each cell; h2, p1 and q1 a rule for    *)
(* one cell and a fallback for the other; the plugins bind ss as well.     *)
MCCaps == Restrict(
   h1 :> <<Cap(kk, <<"rule", "none">>), Cap(kk, <<"fallback", "fallback">>)>> @@
   h2 :> <<Cap(kk, <<"rule", "fallback">>)>> @@
   p1 :> <<Cap(kk, <<"rule", "fallback">>), Cap(ss, <<"fallback">>)>> @@
   q1 :> <<Cap(kk, <<"rule", "fallback">>), Cap(ss, <<"rule">>)>> @@
   q2 :> <<Cap(kk, <<"rule", "none">>)>>, Populator)

(* The binding constructed last comes first; the others are equals but for *)
(* one of qq, which comes last.                                            *)
MCRank == Restrict(h1 :> 2 @@ h2 :> 1 @@ p1 :> 2 @@ q1 :> 2 @@ q2 :> 3, Populator)

MCLocalChain ==
  Restrict(Host :> <<h1>> @@ pp :> <<p1>> @@ qq :> <<q1, q2>> @@ rr :> << >>, Binary)

(* The plugins declare the models in another order than the host.          *)
MCDeclared ==
  Restrict(Host :> <<m, n>> @@ pp :> <<n, m>> @@ qq :> <<n, m>> @@ rr :> << >>, Binary)

(* qq and rr, which declares and binds nothing, share the arena of kk with *)
(* the host, pp nothing.                                                   *)
SharedWithBoth == {Host, qq, rr} \X {kk}

AllShared == {Host, pp, qq} \X {kk, ss}
=============================================================================
