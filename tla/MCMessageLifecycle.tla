------------------------ MODULE MCMessageLifecycle ------------------------
(* Instances of MessageLifecycle for TLC. *)
EXTENDS MessageLifecycle, TLC

CONSTANTS ue, ue2, vasp, eaif, peer, w1, w2

OneWorker == {w1}
TwoWorkers == {w1, w2}
WorkerSymmetry == Permutations({w1, w2})

(* ue    a UE's message for a local recipient                              *)
(* ue2   a UE's message that no route accepts                              *)
(* vasp  a VASP's message for two local recipients                         *)
(* eaif  an EAIF message for a peer MMSC                                   *)
(* peer  a peer's message for a local recipient, who may send it again     *)
All == {ue, ue2, vasp, eaif, peer}
JustUE == {ue}
JustPeer == {peer}

IfaceOf == ue :> "MM1" @@ ue2 :> "MM1" @@ vasp :> "MM7" @@ eaif :> "EAIF" @@ peer :> "MM4"
DestOf == ue :> "Local" @@ ue2 :> "Reject" @@ vasp :> "Local" @@ eaif :> "MM4" @@ peer :> "Local"
RecipientsOf == ue :> 1 @@ ue2 :> 1 @@ vasp :> 2 @@ eaif :> 1 @@ peer :> 1
OwnTxns == ue :> 1 @@ ue2 :> 2 @@ vasp :> 3 @@ eaif :> 4 @@ peer :> 5

MCIface == [m \in Msgs |-> IfaceOf[m]]
MCDest == [m \in Msgs |-> DestOf[m]]
MCRecipients == [m \in Msgs |-> RecipientsOf[m]]
=============================================================================
