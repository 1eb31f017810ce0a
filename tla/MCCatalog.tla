-------------------------------- MODULE MCCatalog --------------------------------
(* Instances of Catalog: three tables in two datasets, in two versions     *)
(* each, one user function and one of the functions NewCatalog adds.       *)
EXTENDS Catalog

Table(path, ver) == [kind |-> "table", path |-> path, ver |-> ver, temp |-> FALSE]
Function(path, ver) ==
    [kind |-> "function", path |-> path, ver |-> ver, temp |-> FALSE]

TablePaths == { << <<"d1">>, <<"t1">> >>, << <<"d1">>, <<"t2">> >>,
                << <<"d2">>, <<"t1">> >> }

MCTableSpecs == {Table(p, v) : p \in TablePaths, v \in 1..2}

MCMissingFunctions == << Function(<< <<"array", "first">> >>, 1) >>

MCFunctionSpecs ==
    {Function(<< <<"array", "first">> >>, 1), Function(<< <<"d1">>, <<"f">> >>, 1),
     Function(<< <<"d1">>, <<"f">> >>, 2)}
=============================================================================
