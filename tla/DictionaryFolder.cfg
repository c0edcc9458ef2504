SPECIFICATION Spec
INVARIANTS OpensOneImport 
CHECK_DEADLOCK FALSE
