--------------------------- MODULE MCPluginEntry ---------------------------
(***************************************************************************)
(* A plugin with two domains: a chain of up to five nodes in one, of one   *)
(* in the other.  Words of eight bits.                                     *)
(***************************************************************************)
EXTENDS PluginEntry

CONSTANTS dd, ee, kk, ss, a1, a2, a3, a4, a5, b1, hd, he, hl

MCDomains == <<dd, ee>>
MCText == (dd :> <<11, 12>> @@ ee :> <<11, 13>> @@ kk :> <<14>> @@ ss :> <<15, 16>>)

MCNodesFor == (dd :> {a1, a2, a3, a4, a5} @@ ee :> {b1})
MCHostNode == (dd :> hd @@ ee :> he)
MCLateNode == [node |-> hl, of |-> dd]

(* The host has no arena of ss in ee, which is the plugin's first anchor.  *)
MCHostAnchors ==
  <<DirectoryOf(dd), HeadOf(dd), CacheOf(dd), ArenaOf(dd, kk), ArenaOf(dd, ss),
    HeadOf(ee), CacheOf(ee), DirectoryOf(ee), ArenaOf(ee, kk)>>
MCPluginAnchors ==
  <<ArenaOf(ee, ss), ArenaOf(ee, kk), CacheOf(ee), HeadOf(ee), DirectoryOf(ee),
    ArenaOf(dd, ss), CacheOf(dd), HeadOf(dd), DirectoryOf(dd)>>

(* A chain visits nodes in the order a1, a2, ... (names are arbitrary) and *)
(* ends after any of them or goes back to one it has visited.  What its    *)
(* other nodes hold is never read.                                         *)
InD == <<a1, a2, a3, a4, a5>>
Shape(k, last) ==
  [x \in Range(InD) |-> LET i == CHOOSE j \in 1 .. 5 : InD[j] = x
                        IN IF i < k THEN InD[i + 1] ELSE IF i = k THEN last ELSE Null]
Shapes ==
  UNION {{Shape(k, last) : last \in {Null} \cup {InD[j] : j \in 1 .. k}} : k \in 1 .. 5}

MCImages ==
  [next : {links @@ (b1 :> last) : links \in Shapes, last \in {b1, Null}},
   head : {(dd :> a1 @@ ee :> b1)}]
  \cup
  [next : {[x \in PluginNodes |-> Null]},
   head : {(dd :> a1 @@ ee :> Null), (dd :> Null @@ ee :> b1), (dd :> Null @@ ee :> Null)}]
=============================================================================
