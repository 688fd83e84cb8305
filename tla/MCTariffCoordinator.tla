------------------------ MODULE MCTariffCoordinator ------------------------
(***************************************************************************)
(* Two months and one tariff; the first start finds no file, or a          *)
(* complete one.                                                           *)
(***************************************************************************)
EXTENDS TariffCoordinator

Complete == [month |-> 0, fresh |-> TRUE, rates |-> [t \in Tariffs |-> 0],
             sims |-> [t \in Tariffs |-> 0]]

NoFile == {NoCache}
File == {Complete}
=============================================================================
