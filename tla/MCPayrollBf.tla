---------------------------- MODULE MCPayrollBf ----------------------------
(* The two versions of prisma/seed.ts; dates are years and months: 202601. *)
EXTENDS PayrollBf, TLC

CONSTANTS v2025, v2026

B(lower, upper, rate) == [lower |-> lower, upper |-> upper, rate |-> rate]

MCOrder == <<v2025, v2026>>

MCLaw ==
    v2025 :> [start |-> 202501, end |-> 202601,
              cnssEmployee |-> 50, cnssEmployer |-> 150, cnssCeiling |-> 1000000,
              carfoEmployee |-> 80, carfoEmployer |-> 120, carfoRegimes |-> {"PUBLIC_CARFO"},
              smig |-> 45000, smigControl |-> TRUE,
              brackets |-> <<B(0, 30000, 0), B(30000, 60000, 100), B(60000, None, 200)>>]
 @@ v2026 :> [start |-> 202601, end |-> None,
              cnssEmployee |-> 55, cnssEmployer |-> 160, cnssCeiling |-> 800000,
              carfoEmployee |-> 80, carfoEmployer |-> 120, carfoRegimes |-> {"PUBLIC_CARFO"},
              smig |-> 45000, smigControl |-> TRUE,
              brackets |-> <<B(0, 30000, 0), B(30000, 50000, 121), B(50000, 80000, 139),
                             B(80000, 120000, 157), B(120000, 170000, 184),
                             B(170000, 250000, 217), B(250000, None, 250)>>]

\* Base salaries under and at the SMIG, across the brackets, and on both
\* sides of the ceiling; allowances under and over their exonerations. At
\* 159950 and 1199974 one franc more crosses a hundred of the taxable base.
MCInputs ==
    [regime : {"PRIVE", "PUBLIC_CARFO"}, base : {44999, 45000, 77150, 159950, 799999, 1199974},
     bonus : {0}, overtime : {150}, nontaxable : {5000}, housing : {0, 90000},
     function : {0, 60000}, transport : {0, 12345}, children : {0, 2, 4},
     dependentSpouse : BOOLEAN, isCadre : BOOLEAN]
=============================================================================
