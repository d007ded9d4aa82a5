----------------------- MODULE MCYamlPortfolioWriter -----------------------
(* Small instances of YamlPortfolioWriter. *)
EXTENDS YamlPortfolioWriter

CONSTANTS a, b, c

\* A batch of one entry, another of two.
MCBatches == {<<a>>, <<b, c>>}
=============================================================================
