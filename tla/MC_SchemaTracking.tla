------------------------- MODULE MC_SchemaTracking -------------------------
(* Instances of SchemaTracking for model checking.                         *)
EXTENDS SchemaTracking

(* A field is added, another changes its type, then all is as at first.    *)
Account ==
    << {"Id:string", "Amount:string"},
       {"Id:string", "Amount:string", "Email:string"},
       {"Id:string", "Amount:double", "Email:string"},
       {"Id:string", "Amount:string"} >>
=============================================================================
