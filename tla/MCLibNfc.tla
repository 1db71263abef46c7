------------------------------ MODULE MCLibNfc ------------------------------
(***************************************************************************)
(* LibNfc on a small field: tags one at a time, two at once, and peers.    *)
(***************************************************************************)
EXTENDS LibNfc

Dev(kind, id) == [kind |-> kind, id |-> id]
Tag == Dev("Tag", 1)

MCFinds == {<<Tag>>, <<Dev("Ultra", 1)>>, <<Dev("Mifare", 1)>>, <<Dev("Target", 1)>>,
            <<Dev("Initiator", 1)>>, <<Dev("Other", 1)>>, <<Tag, Dev("Mifare", 2)>>}
=============================================================================
