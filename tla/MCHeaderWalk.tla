---------------------------- MODULE MCHeaderWalk ----------------------------
(***************************************************************************)
(* A small instance of HeaderWalk.  A file of 51 bytes holds four chunks:  *)
(* ds64, fmt and data of a body byte each, and one after the audio; or     *)
(* fewer, longer ones.  Lengths of 50 (u32::MAX) and 60 overrun it, and    *)
(* added to a location they saturate at 70 (u64::MAX).  The declared RIFF  *)
(* sizes end inside the file, past its end, and nowhere.                   *)
(***************************************************************************)
EXTENDS HeaderWalk, TLC

MCU32Max == 50
MCU64Max == 70
MCFileSizes == {51}
MCDeclared == {29, 45, 50}
MCIds == Owned \cup {NoId, "LIST"}
MCLengths == {0, 1, 50}
MCDs64Values == {1, 29, 50}
MCTables == {"LIST" :> 5 @@ "fmt " :> 0 @@ "fact" :> 60}
=============================================================================
