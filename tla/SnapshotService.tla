--------------------------- MODULE SnapshotService ---------------------------
(***************************************************************************)
(* What the two camera servers promise for http://<camera>:3000/x.bmp,     *)
(* whatever their threads do: a request makes the camera take exactly one  *)
(* new image, and the answer, when there is one, carries that image and no *)
(* other, all of it unless the program ends first.  AkSnapshot and         *)
(* AkRecord are checked and proved against this.                           *)
(***************************************************************************)
EXTENDS Naturals

VARIABLES
  phase,    \* of the request in service: "idle", "asked", "taken"
  images,   \* how many images this run of the program has taken
  sent,     \* number of the image in the last answer, 0 when it has none
  complete  \* the answer carries all of it

serviceVars == <<phase, images, sent, complete>>
answer      == <<sent, complete>>

Init == phase = "idle" /\ images = 0 /\ sent = 0 /\ complete = FALSE

\* A connection is accepted; the server has yet to learn what it asks for.
Greet == /\ phase = "idle"
         /\ sent' = 0 /\ complete' = FALSE
         /\ UNCHANGED <<phase, images>>

Ask == phase = "idle" /\ phase' = "asked" /\ UNCHANGED <<images, answer>>

Take == /\ phase = "asked"
        /\ phase' = "taken"
        /\ images' = images + 1
        /\ UNCHANGED answer

\* More of the image goes out.
Send == /\ phase = "taken" /\ ~complete
        /\ sent' = images /\ complete' \in BOOLEAN
        /\ UNCHANGED <<phase, images>>

\* The answer ends: with the whole image, or with nothing of one that could
\* not be opened.
Finish == /\ phase = "taken" /\ (complete \/ sent = 0)
          /\ phase' = "idle"
          /\ UNCHANGED <<images, answer>>

\* The program ends in the middle of anything, and is started again.
Stop    == phase' = "idle" /\ UNCHANGED <<images, answer>>
Restart == /\ phase = "idle" /\ phase' = "idle"
           /\ images' = 0 /\ sent' = 0 /\ complete' = FALSE

Next == Greet \/ Ask \/ Take \/ Send \/ Finish \/ Stop \/ Restart

Spec == Init /\ [][Next]_serviceVars
=============================================================================
