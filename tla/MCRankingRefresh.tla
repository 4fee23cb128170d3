-------------------------- MODULE MCRankingRefresh --------------------------
EXTENDS RankingRefresh, TLC
=============================================================================
