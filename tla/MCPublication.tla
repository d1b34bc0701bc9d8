---------------------------- MODULE MCPublication ----------------------------
(***************************************************************************)
(* Small instances of Publication for TLC: a video with a poster, that may *)
(* have to be encrypted, and one optional step behind the barrier.         *)
(***************************************************************************)
EXTENDS Publication

CONSTANTS poster, encrypt, visible, extract

AllSteps == {poster, encrypt, visible, extract}
VideoDeps ==
    [s \in AllSteps |->
        CASE s = encrypt -> {poster}
          [] s = extract -> {visible}
          [] OTHER -> {}]
PlainOrEncrypted == {{poster, visible, extract}, {poster, encrypt, visible}}
=============================================================================
