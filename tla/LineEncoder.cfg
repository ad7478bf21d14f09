SPECIFICATION Spec
CONSTANT Texts <- ShortTexts
INVARIANT TypeOK
INVARIANT ResultIsMeaning
INVARIANT RefusalIsClean
INVARIANT EvalIsTwoPhase
