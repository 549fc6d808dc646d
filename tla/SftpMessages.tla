---------------------------- MODULE SftpMessages ----------------------------
(***************************************************************************)
(* What a browser may ask for over an SFTP socket (session/sftp-ws.ts,     *)
(* ClientMsg): transfers, each with an id of its own, and the sizes it     *)
(* announces for uploads.  Data are abstracted to frames counted.          *)
(***************************************************************************)
EXTENDS Naturals

CONSTANTS
    Ids,      \* transfers
    Sizes,    \* sizes of uploads, in frames
    None

\* pendingPut: the upload that frames belong to, and how many it lacks.
PendingPut == [id : Ids, left : Nat \ {0}]

ASSUME SizesAssumption == Sizes \subseteq Nat
ASSUME NoneAssumption  == None \notin Ids /\ None \notin PendingPut
=============================================================================
