---------------------------- MODULE MCRealmNotifier ----------------------------
EXTENDS RealmNotifier, TLC

CONSTANTS o1, o2

MCObservers == {o1, o2}
ObserverSymmetry == Permutations(MCObservers)
=============================================================================
