------------------------ MODULE MCMercadoPagoWebhook ------------------------
(***************************************************************************)
(* MercadoPagoWebhook on a small instance: all ids are interchangeable.    *)
(***************************************************************************)
EXTENDS MercadoPagoWebhook, TLC

Symmetry == Permutations(Orders) \cup Permutations(Attempts)
            \cup Permutations(Events) \cup Permutations(Hooks)
=============================================================================
