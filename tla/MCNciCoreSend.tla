--------------------------- MODULE MCNciCoreSend ---------------------------
(* Instances of NciCoreSend: transactions on the static connection "rf"    *)
(* and on a second one, "hci".                                             *)
EXTENDS NciCoreSend

CONSTANT Ids  \* the transactions of the instance, by id

Tr(id, data, conn, op, only, segs) ==
  [id |-> id, data |-> data, conn |-> conn, op |-> op, only |-> only, segs |-> segs]

AllTrans == {
  Tr("discover",   FALSE, "rf",  "discover",   FALSE, 1),
  Tr("deactivate", FALSE, "rf",  "deactivate", FALSE, 1),
  Tr("exchange",   TRUE,  "rf",  "none",       FALSE, 1),
  Tr("segmented",  TRUE,  "rf",  "none",       FALSE, 2),
  Tr("hci",        TRUE,  "hci", "none",       FALSE, 1),
  Tr("listen",     TRUE,  "rf",  "none",       TRUE,  2),
  Tr("reply",      TRUE,  "rf",  "none",       TRUE,  1) }

MCTrans == {t \in AllTrans : t.id \in Ids}

=============================================================================
