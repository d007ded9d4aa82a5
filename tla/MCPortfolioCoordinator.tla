----------------------- MODULE MCPortfolioCoordinator -----------------------
(* Two loads of one entry and one midnight: a refresh can go on after the  *)
(* first coordinator was unloaded, and overlap with one of the second.     *)
EXTENDS PortfolioCoordinator
=============================================================================
