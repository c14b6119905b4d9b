---------------------------- MODULE MCSimpleAodv ----------------------------
(* Four nodes for TLC: two chains from "s" to "d" over "a" and "b" in      *)
(* either order, and a diamond.                                            *)
EXTENDS SimpleAodv

Both(E) == E \cup {<< e[2], e[1] >> : e \in E}

Chain == Both({<< "s", "a" >>, << "a", "b" >>, << "b", "d" >>})
OtherChain == Both({<< "s", "b" >>, << "b", "a" >>, << "a", "d" >>})
Diamond == Both({<< "s", "a" >>, << "s", "b" >>, << "a", "b" >>, << "a", "d" >>, << "b", "d" >>})

Shapes == {Chain, OtherChain, Diamond}
=============================================================================
