---------------------------- MODULE MCDepthLods ----------------------------
(* Filling for TLC: pictures that halve evenly and pictures that do not,   *)
(* with few pixels measured, so that most are filled, from every level.    *)
EXTENDS DepthLods

MCPicture(width, height, few, infinite) ==
  LET pixels == 0 .. width * height - 1
  IN  {[width |-> width, height |-> height, measured |-> m \ infinite,
        infinite |-> infinite] :
         m \in {{}} \cup {{f[j] : j \in 1 .. few} : f \in [1 .. few -> pixels]}}

(* Levels of 4 by 6: 2 by 3, which is odd as 20 by 15 of 640 by 480, and   *)
(* 1 by 1; of 10 by 4: 5 by 2, 2 by 1, 1 by 0.                             *)
MCPictures ==
  UNION {MCPicture(4, 4, 3, {}), MCPicture(4, 4, 2, {5}),
         MCPicture(8, 8, 2, {}), MCPicture(8, 8, 1, {0, 27}),
         MCPicture(2, 2, 4, {}), MCPicture(4, 6, 2, {}),
         MCPicture(6, 4, 2, {1}), MCPicture(10, 4, 2, {})}
=============================================================================
