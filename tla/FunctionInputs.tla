---------------------------- MODULE FunctionInputs ----------------------------
(***************************************************************************)
(* The functions of config.rs, kpi.rs and proxy_capture.rs that are proved    *)
(* about, and the properties that say of an input what they make of it.      *)
(***************************************************************************)
EXTENDS MaintenanceWindows, DreamShop, WildcardFilter, CaptureText

\* What a function was given, and which one.
VARIABLE input

WindowsInput == [of : {"windows"}, ws : Seq(ConfigWindow), minutes : SUBSET Int]
ShopInput(M) ==
    {x \in [of : {"shop"}, goods : [M -> Seq(Nat)], list : Seq(Entry)] : NamesNoneTwice(x.list)}
FilterInput(C) == [of : {"filter"}, pattern : Seq(C), command : Seq(C \ {Star})]
FileInput(C) == [of : {"file"}, text : Seq(C), ends : SUBSET Nat, max : Nat]

\* normalize_maintenance_windows changes no minute in which the scheduler stands
\* still, and leaves gaps between the windows of a day.
MaintenanceKept == input.of = "windows" => MinutesKept(input.ws, input.minutes)

\* Every purchase of run_dream_shop_daily finds its good, whichever of the others
\* fail, and if none fails exactly the goods that are not listed are left.
PurchasesRight == input.of = "shop" => ListBought(input.goods, input.list)

\* The inspector's command filter matches as a wildcard pattern says, and a capture
\* file is read the same however it is buffered.
CaptureTextRight ==
    /\ input.of = "filter" => FilterRight(input.pattern, input.command)
    /\ input.of = "file" => LinesRight(input.text, input.ends, input.max)
=============================================================================
