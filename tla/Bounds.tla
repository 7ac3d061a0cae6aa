------------------------------- MODULE Bounds -------------------------------
(***************************************************************************)
(* rustc_hir_analysis's Bounds (rustc_hir_analysis/src/bounds.rs): the     *)
(* bounds collected for a type parameter, and Bounds::predicates, which    *)
(* flattens them into (predicate, span) pairs for a given self type.       *)
(*                                                                         *)
(* Types, regions, traits, projections and spans are model values; a       *)
(* trait reference is [def, self] (its self type is explicit, as the       *)
(* comment on trait_bounds says).  A predicate is a record tagged by its   *)
(* kind.  Binders are left out: Binder::dummy and map_bound keep the bound *)
(* variables of what they wrap, and no bound here has any.                 *)
(***************************************************************************)
EXTENDS Sequences, SequencesExt

CONSTANTS
  BoundsSet,   \* the Bounds values a caller may have collected
  ParamTys,    \* the self types handed to predicates
  SizedItems,  \* what tcx.lang_items().sized_trait() may return
  None         \* Option::None

VARIABLES
  bounds,      \* the Bounds
  paramTy,     \* param_ty
  sizedTrait,  \* tcx.lang_items().sized_trait()
  preds        \* None, then the predicates yielded, in order

vars == <<bounds, paramTy, sizedTrait, preds>>

(* The Sized predicate, if the parameter is implicitly sized and the lang *)
(* item exists (the `?` inside the closure yields None, not an early      *)
(* return of predicates).                                                   *)
SizedPredicate(b, ty, sized) ==
  IF b.implicitly_sized = None \/ sized = None THEN <<>>
  ELSE <<<<[kind |-> "Trait", def |-> sized, self |-> ty, constness |-> "NotConst"],
           b.implicitly_sized>>>>

RegionPreds(b, ty) ==
  [k \in DOMAIN b.region_bounds |->
     <<[kind |-> "TypeOutlives", ty |-> ty, region |-> b.region_bounds[k][1]],
       b.region_bounds[k][2]>>]

(* `bound_trait_ref.with_constness(constness).to_predicate(tcx)`           *)
TraitPreds(b) ==
  [k \in DOMAIN b.trait_bounds |->
     <<[kind |-> "Trait", def |-> b.trait_bounds[k][1].def, self |-> b.trait_bounds[k][1].self,
        constness |-> b.trait_bounds[k][3]],
       b.trait_bounds[k][2]>>]

ProjectionPreds(b) ==
  [k \in DOMAIN b.projection_bounds |->
     <<[kind |-> "Projection", projection |-> b.projection_bounds[k][1]],
       b.projection_bounds[k][2]>>]

(* Bounds::predicates: the chain, Sized first.                            *)
Predicates(b, ty, sized) ==
  SizedPredicate(b, ty, sized) \o RegionPreds(b, ty) \o TraitPreds(b) \o ProjectionPreds(b)

Init ==
  /\ bounds \in BoundsSet
  /\ paramTy \in ParamTys
  /\ sizedTrait \in SizedItems
  /\ preds = None

(* The caller collects the iterator.                                       *)
CollectPredicates ==
  /\ preds = None
  /\ preds' = Predicates(bounds, paramTy, sizedTrait)
  /\ UNCHANGED <<bounds, paramTy, sizedTrait>>

Spec == Init /\ [][CollectPredicates]_vars
=============================================================================
