------------------------------ MODULE MCTests ------------------------------
(* The classes of the unit tests which have a proxy.                       *)
EXTENDS UnitTests
MadeShared == {"SharedConstructor", "SharedValueReturn", "DefaultShared", "DefaultStub1",
  "DefaultParamConstructor", "DefaultClass_ops"}
Classes == MadeShared \cup
  {"HasIntMember", "Stub1", "Stub2", "Stub3", "InvalidStub", "Abstract3", "Base1", "Derived",
  "MockParamWithStringMember", "Constant", "DerivesToUseConstMethod", "Return_double",
  "ParamConstructor", "LuaStateConstructors", "StringConstructorMock", "PrivateDestructor",
  "Public_variables", "Enums", "Class_ops", "SharedFoo", "Abstract1", "Abstract2",
  "Derived1Abstract1", "TwoAbstractBases", "DefaultNoSharedValueReturn", "PointerChangesToShared",
  "NoSharedOps", "DefaultConstructorNoShared", "ParamConstructorNoShared", "NoSharedValueReturn"}
Derivation == {<<"Derived", "Base1">>, <<"DerivesToUseConstMethod", "Constant">>,
  <<"Derived1Abstract1", "Abstract1">>, <<"TwoAbstractBases", "Abstract1">>,
  <<"TwoAbstractBases", "Abstract2">>}
=============================================================================
